---- MODULE Spec2Model ----
(***************************************************************************)
(* A model of toy-boltdb: a single-file, copy-on-write B+tree key/value    *)
(* store with one writer and many readers.                                 *)
(*                                                                         *)
(* Keys and values are single bytes written as naturals (bytes.Compare is  *)
(* the order of the naturals); 0 stands for the nil slice.  A page is the  *)
(* record of its header fields and of the body behind ptr.  The file is a  *)
(* function from physical page id to the page written there.               *)
(***************************************************************************)
EXTENDS Naturals, Integers, Sequences, FiniteSets, TLC

\* ------------------------------------------------------------ bounds
NumThreads == 2
NumLockThreads == 3
LockMaxTxID == 2
BranchMaxKey == 6
BranchMaxTxID == 3
FreeMaxID == 7
FreeMaxN == 3
FreeMaxPage == 3
FreeMaxOverflow == 1
FreeMaxTxID == 3
FreeMaxPending == 4
AllocBigCount == 1019
AllocMaxDirtyPages == 3
AllocMaxTxID == 3
ExactValSize == 4063
SizeMaxKey == 2
SizeMaxTxID == 3
DerefMaxKey == 5
DerefMaxTxID == 3
ReopenMaxTxID == 3
SplitMaxChildren == 7
MergeMaxKey == 7
MergeMaxTxID == 3
PutMaxKey == 3
PutMaxVal == 4
WideKeySize == 1000
NumBuckets == 1
NumFaultBuckets == 2
MaxKey == 1
MaxVal == 2
MaxTxID == 3
MaxFaults == 1
MaxMmapFail == 2
MaxDirtyPages == 1
TreeMaxKey == 5
TreeMaxTxID == 3
ValSize == 1000
MidValSize == 4158000
BigValSize == 5000000
NumCatalogNames == 2
NumFillNames == 18
FillNameSize == 210
CatMaxTxID == 3
FillMaxTxID == 2
InputMaxTxID == 3
CatMaxDirtyPages == 2
MaxSeq == 2

\* ------------------------------------------------- program constants
pageHeaderSize == 16
branchPageElementSize == 16
leafPageElementSize == 16
bucketSize == 16
branchPageFlag == 1
leafPageFlag == 2
metaPageFlag == 4
bucketsPageFlag == 8
freelistPageFlag == 16
minKeysPerPage == 2
minMmapSize == 4194304
maxMmapStep == 1073741824
maxUint16 == 65536
MaxKeySize == 32768
\* MaxValueSize = 4294967295 = MaxValueSizeHigh * 65536 + MaxValueSizeLow
MaxValueSizeHigh == 65535
MaxValueSizeLow == 65535
MaxBucketNameSize == 255

\* os.Getpagesize() of the platform
pageSize == 4096

Threads == 1..NumThreads
Readers == 2..NumThreads
LockThreads == 1..NumLockThreads
LockWriters == 1..2
LockReaders == 2..NumLockThreads
Keys == 1..MaxKey
MidVal == MaxVal + 1
BigVal == MaxVal + 2
Vals == {BigVal}
FaultVals == {MidVal, BigVal}
FaultBuckets == 1..NumFaultBuckets
TreeKeys == 1..TreeMaxKey
\* the puts of the tree workload: every key with value 1, key 1 also with the others
TreePuts == {<<k, 1>> : k \in TreeKeys} \cup {<<1, v>> : v \in 1..MaxVal}
BucketNames == 1..NumBuckets
TreeBucket == NumBuckets
\* the bucket names of the catalog workload in lexicographic order; 0 is the empty
\* name, MaxSizeName has MaxBucketNameSize bytes, TooLargeName one byte more
CatalogNames == 1..NumCatalogNames
MaxSizeName == NumCatalogNames + 1
TooLargeName == NumCatalogNames + 2
\* names of FillNameSize bytes, for a catalog that fills its page
FillNames == (NumCatalogNames + 3)..(NumCatalogNames + 2 + NumFillNames)
\* what buckets.read gets for a name whose bytes continue behind the end of the page
TornName == 0 - 1
\* a key of MaxKeySize bytes, a key of one byte more, a value of MaxValueSize + 1 bytes
MaxSizeKey == BranchMaxKey + 1
TooLargeKey == BranchMaxKey + 2
\* the keys above TooLargeKey have WideKeySize bytes
WideKey(i) == TooLargeKey + i
TooLargeVal == MaxVal + 3
\* a value that makes the size of a leaf with one key of one byte the page size
ExactVal == MaxVal + 4

\* ----------------------------------------------------------- helpers
Min(a, b) == IF a < b THEN a ELSE b

Max(a, b) == IF a > b THEN a ELSE b

Range(s) == {s[i] : i \in DOMAIN s}

\* s[:i] ++ s[j:] with Go's 0-based half-open bounds
SliceCut(s, i, j) == SubSeq(s, 1, i) \o SubSeq(s, j + 1, Len(s))

\* append(s, zero); copy(s[i+1:], s[i:]); s[i] = e   (i is 0-based)
SliceInsert(s, i, e) == SubSeq(s, 1, i) \o <<e>> \o SubSeq(s, i + 1, Len(s))

KeyLen(k) ==
    IF k = 0 THEN 0 ELSE IF k = MaxSizeKey THEN MaxKeySize
    ELSE IF k = TooLargeKey THEN MaxKeySize + 1
    ELSE IF k > TooLargeKey THEN WideKeySize ELSE 1

ValLen(v) ==
    IF v = 0 THEN 0 ELSE IF v = BigVal THEN BigValSize
    ELSE IF v = MidVal THEN MidValSize
    ELSE IF v = ExactVal THEN ExactValSize ELSE ValSize

\* len(value) > MaxValueSize, on the two 16-bit halves of the length: TooLargeVal
\* has 65536 * 65536 bytes
valueTooLarge(v) ==
    LET high == IF v = TooLargeVal THEN maxUint16 ELSE ValLen(v) \div maxUint16
        low == IF v = TooLargeVal THEN 0 ELSE ValLen(v) % maxUint16
    IN high > MaxValueSizeHigh \/ (high = MaxValueSizeHigh /\ low > MaxValueSizeLow)

NameLen(name) ==
    IF name = 0 THEN 0 ELSE IF name = MaxSizeName THEN MaxBucketNameSize
    ELSE IF name = TooLargeName THEN MaxBucketNameSize + 1
    ELSE IF name \in FillNames THEN FillNameSize ELSE 1

\* sort.Search(n, func(i) bool { return bytes.Compare(keys[i], key) != -1 })
RECURSIVE sortSearchFrom(_, _, _, _)
sortSearchFrom(keys, key, i, j) ==
    IF i < j
    THEN LET h == (i + j) \div 2
         IN IF ~(keys[h + 1] >= key)
            THEN sortSearchFrom(keys, key, h + 1, j)
            ELSE sortSearchFrom(keys, key, i, h)
    ELSE i

sortSearch(keys, key) == sortSearchFrom(keys, key, 0, Len(keys))

KeysOf(elems) == [i \in 1..Len(elems) |-> elems[i].key]

\* ------------------------------------------------------------- pages
NilPage == [id |-> 0, flags |-> 0, count |-> 0, overflow |-> 0, ptr |-> <<>>]

\* the 2nd, 3rd, ... physical page of a page with overflow > 0
OverflowPage(owner) == [id |-> owner, flags |-> 0, count |-> 0, overflow |-> 0, ptr |-> <<>>]

NilMeta == [valid |-> FALSE, bucketsPageID |-> 0, freelistPageID |-> 0, pageID |-> 0, txID |-> 0]

\* a meta.write whose meta.copy leaves out the high-water mark
metaWriteNoPageID(m) ==
    [id |-> m.txID % 2, flags |-> metaPageFlag, count |-> 0, overflow |-> 0,
     ptr |-> [m EXCEPT !.pageID = 0]]

\* meta.write: the page id is txID % 2
metaWrite(m) ==
    [id |-> m.txID % 2, flags |-> metaPageFlag, count |-> 0, overflow |-> 0, ptr |-> m]

\* DB.init: pages 0..3 of a new file
dbInit ==
    LET m(i) == [valid |-> TRUE, bucketsPageID |-> 3, freelistPageID |-> 2,
                 pageID |-> 4, txID |-> i]
    IN (0 :> [id |-> 0, flags |-> metaPageFlag, count |-> 0, overflow |-> 0, ptr |-> m(0)])
       @@ (1 :> [id |-> 1, flags |-> metaPageFlag, count |-> 0, overflow |-> 0, ptr |-> m(1)])
       @@ (2 :> [id |-> 2, flags |-> freelistPageFlag, count |-> 0, overflow |-> 0, ptr |-> <<>>])
       @@ (3 :> [id |-> 3, flags |-> bucketsPageFlag, count |-> 0, overflow |-> 0, ptr |-> <<>>])

\* DB.meta: the meta page with the higher txID
dbMeta(f) == IF f[0].ptr.txID > f[1].ptr.txID THEN f[0].ptr ELSE f[1].ptr

\* DB.page: a page of the mapped file
dbPage(f, id) == IF id \in DOMAIN f THEN f[id] ELSE NilPage

\* Transaction.page: the dirty page if there is one, else the mapped page
txPage(f, pages, id) == IF id \in DOMAIN pages THEN pages[id] ELSE dbPage(f, id)

VARIABLES file, opened, mmapLen, freelist, txs, rwtx, rwlock,
          metalock, mmaplock, pc, view, committed, hist

vars == <<file, opened, mmapLen, freelist, txs, rwtx, rwlock,
          metalock, mmaplock, pc, view, committed, hist>>

\* (p.flags & flag) != 0 for a one-bit flag
hasFlag(p, flag) == (p.flags \div flag) % 2 = 1

\* page.leafPageElement / page.branchPageElement: element index (0-based)
pageElement(p, index) ==
    IF index + 1 \in DOMAIN p.ptr THEN p.ptr[index + 1]
    ELSE [key |-> 0, value |-> 0, pageID |-> 0]

\* ------------------------------------------------------------ cursor
\* A cursor is its stack of [page, index]; panic marks a failed assertion.

\* Cursor.search with Cursor.nsearch for the leaf
RECURSIVE cursorSearch(_, _, _, _, _)
cursorSearch(f, pages, key, p, stack) ==
    IF ~hasFlag(p, branchPageFlag) /\ ~hasFlag(p, leafPageFlag)
    THEN [stack |-> stack, panic |-> TRUE]
    ELSE IF hasFlag(p, leafPageFlag)
    THEN [stack |-> Append(stack, [page |-> p, index |-> sortSearch(KeysOf(p.ptr), key)]),
          panic |-> FALSE]
    ELSE LET keys == KeysOf(p.ptr)
             found == sortSearch(keys, key)
             exact == found < p.count /\ keys[found + 1] = key
             index == IF ~exact /\ found > 0 THEN found - 1 ELSE found
         IN IF index >= p.count
            THEN [stack |-> stack, panic |-> TRUE]
            ELSE cursorSearch(f, pages, key, txPage(f, pages, p.ptr[index + 1].pageID),
                              Append(stack, [page |-> p, index |-> index]))

\* Cursor.Get: the stack after the search and the value returned (0 is nil)
cursorGet(f, pages, rootPageID, key) ==
    LET c == cursorSearch(f, pages, key, txPage(f, pages, rootPageID), <<>>)
    IN IF c.panic THEN [stack |-> c.stack, value |-> 0, panic |-> TRUE]
       ELSE LET top == c.stack[Len(c.stack)]
            IN [stack |-> c.stack, panic |-> FALSE,
                value |-> IF top.index = top.page.count THEN 0
                          ELSE IF key # pageElement(top.page, top.index).key THEN 0
                          ELSE pageElement(top.page, top.index).value]

\* Cursor.first: descend to the first leaf under the top of the stack; the
\* descent ends on a page without elements to follow (unmapped or untyped)
RECURSIVE cursorFirst(_, _, _)
cursorFirst(f, pages, stack) ==
    LET top == stack[Len(stack)]
    IN IF hasFlag(top.page, leafPageFlag) THEN stack
       ELSE IF ~hasFlag(top.page, branchPageFlag) \/ top.index >= top.page.count THEN stack
       ELSE cursorFirst(f, pages,
              Append(stack, [page |-> txPage(f, pages, pageElement(top.page, top.index).pageID),
                             index |-> 0]))

\* Cursor.keyValue: <<key, value>>, <<0, 0>> past the end of the leaf
cursorKeyValue(stack) ==
    LET ref == stack[Len(stack)]
    IN IF ref.index >= ref.page.count THEN <<0, 0>>
       ELSE <<pageElement(ref.page, ref.index).key, pageElement(ref.page, ref.index).value>>

\* a Next that stops at the end of the leaf it is in
cursorAdvanceInLeaf(stack) ==
    IF stack = <<>> THEN stack
    ELSE LET i == Len(stack)
             elem == stack[i]
         IN IF elem.index < (elem.page.count + maxUint16 - 1) % maxUint16
            THEN [stack EXCEPT ![i].index = elem.index + 1]
            ELSE <<>>

\* the loop of Cursor.Next: pop exhausted frames, advance the first that is not
RECURSIVE cursorAdvance(_)
cursorAdvance(stack) ==
    IF stack = <<>> THEN stack
    ELSE LET i == Len(stack)
             elem == stack[i]
         IN IF elem.index < (elem.page.count + maxUint16 - 1) % maxUint16
            THEN [stack EXCEPT ![i].index = elem.index + 1]
            ELSE cursorAdvance(SubSeq(stack, 1, i - 1))

\* the loop of Transaction.ForEach after Cursor.First: the pairs visited
RECURSIVE forEachFrom(_, _, _, _)
forEachFrom(f, pages, stack, acc) ==
    IF ~hasFlag(stack[Len(stack)].page, leafPageFlag) THEN [pairs |-> acc, panic |-> TRUE]
    ELSE LET kv == cursorKeyValue(stack)
         IN IF kv[1] = 0 THEN [pairs |-> acc, panic |-> FALSE]
            ELSE LET adv == cursorAdvance(stack)
                 IN IF adv = <<>> THEN [pairs |-> Append(acc, kv), panic |-> FALSE]
                    ELSE forEachFrom(f, pages, cursorFirst(f, pages, adv), Append(acc, kv))

\* Cursor.First followed by Cursor.Next until a nil key
cursorForEach(f, pages, rootPageID) ==
    forEachFrom(f, pages,
                cursorFirst(f, pages, <<[page |-> txPage(f, pages, rootPageID), index |-> 0]>>),
                <<>>)

\* -------------------------------------------------------------- node
NilNode == [isLeaf |-> FALSE, unbalanced |-> FALSE, key |-> 0, depth |-> 0,
            pageID |-> 0, parent |-> 0, children |-> <<>>]

\* node.minKeys
minKeys(n) == IF n.isLeaf THEN 1 ELSE 2

\* node.pageElementSize
pageElementSize(n) == IF n.isLeaf THEN leafPageElementSize ELSE branchPageElementSize

RECURSIVE sumSizes(_, _, _)
sumSizes(children, elementSize, i) ==
    IF i > Len(children) THEN 0
    ELSE elementSize + KeyLen(children[i].key) + ValLen(children[i].value)
         + sumSizes(children, elementSize, i + 1)

\* node.size
nodeSize(n) == pageHeaderSize + sumSizes(n.children, pageElementSize(n), 1)

\* a put that inserts a new inode at the place of the key, whether the key is
\* there or not
nodePutInsert(n, oldKey, newKey, value, pageID) ==
    [n EXCEPT !.children = SliceInsert(n.children, sortSearch(KeysOf(n.children), oldKey),
                                       [key |-> newKey, value |-> value, pageID |-> pageID])]

\* node.put
nodePut(n, oldKey, newKey, value, pageID) ==
    LET index == sortSearch(KeysOf(n.children), oldKey)
        exact == Len(n.children) > 0 /\ index < Len(n.children)
                 /\ n.children[index + 1].key = oldKey
        inode == [key |-> newKey, value |-> value, pageID |-> pageID]
    IN IF exact THEN [n EXCEPT !.children[index + 1] = inode]
       ELSE [n EXCEPT !.children = SliceInsert(n.children, index, inode)]

\* node.put(oldKey, src.key, nil, pageID): inode.key = newKey makes the key of the
\* inode the slice that src.key is
nodePutKeyOf(n, oldKey, src, pageID) ==
    LET index == sortSearch(KeysOf(n.children), oldKey)
        m == nodePut(n, oldKey, src.key, 0, pageID)
    IN IF "mm" \in DOMAIN src
       THEN [m EXCEPT !.children[index + 1] =
                [key |-> src.key, value |-> 0, pageID |-> pageID, mm |-> src.mm]]
       ELSE m

\* a del that leaves the node as it is
nodeDelKept(n, key) == n

\* a del that removes the inode at the place of the key, whatever its key
nodeDelAtIndex(n, key) ==
    LET index == sortSearch(KeysOf(n.children), key)
    IN IF index >= Len(n.children) THEN n
       ELSE [n EXCEPT !.children = SliceCut(n.children, index, index + 1),
                      !.unbalanced = TRUE]

\* node.del
nodeDel(n, key) ==
    LET index == sortSearch(KeysOf(n.children), key)
    IN IF index >= Len(n.children) \/ n.children[index + 1].key # key THEN n
       ELSE [n EXCEPT !.children = SliceCut(n.children, index, index + 1),
                      !.unbalanced = TRUE]

\* node.read: the node of a page (parent and depth are set by RWTransaction.node)
nodeRead(p, parent, depth) ==
    [isLeaf |-> hasFlag(p, leafPageFlag), unbalanced |-> FALSE,
     key |-> IF p.count > 0 THEN pageElement(p, 0).key ELSE 0,
     depth |-> depth, pageID |-> p.id, parent |-> parent,
     children |-> [i \in 1..p.count |->
                     IF hasFlag(p, leafPageFlag)
                     THEN [key |-> pageElement(p, i - 1).key,
                           value |-> pageElement(p, i - 1).value, pageID |-> 0]
                     ELSE [key |-> pageElement(p, i - 1).key, value |-> 0,
                           pageID |-> pageElement(p, i - 1).pageID]]]

\* node.write: the page p after the node is written onto it
nodeWrite(n, p) ==
    [p EXCEPT !.flags = IF n.isLeaf THEN leafPageFlag ELSE branchPageFlag,
              !.count = Len(n.children),
              !.ptr = [i \in 1..Len(n.children) |->
                         IF n.isLeaf
                         THEN [key |-> n.children[i].key, value |-> n.children[i].value,
                               pageID |-> 0]
                         ELSE [key |-> n.children[i].key, value |-> 0,
                               pageID |-> n.children[i].pageID]]]

\* the loop of node.split: the children of the resulting nodes, in order
RECURSIVE splitLoop(_, _, _, _, _, _)
splitLoop(n, inodes, i, size, current, nodes) ==
    IF i >= Len(inodes) THEN Append(nodes, current)
    ELSE LET inode == inodes[i + 1]
             elemSize == pageElementSize(n) + KeyLen(inode.key) + ValLen(inode.value)
             threshold == pageSize \div 2
         IN IF Len(current) >= minKeysPerPage /\ i < Len(inodes) - minKeysPerPage
               /\ size + elemSize > threshold
            THEN splitLoop(n, inodes, i + 1, pageHeaderSize + elemSize, <<inode>>,
                           Append(nodes, current))
            ELSE splitLoop(n, inodes, i + 1, size + elemSize, Append(current, inode), nodes)

\* a split that cuts the first child off every node with two children or more
nodeSplitFirst(n) ==
    IF Len(n.children) < 2 THEN <<n.children>>
    ELSE <<SubSeq(n.children, 1, 1), Tail(n.children)>>

\* node.split: the children of each node it returns (the first is n itself)
nodeSplit(n) ==
    IF Len(n.children) <= minKeysPerPage * 2 \/ nodeSize(n) < pageSize
    THEN <<n.children>>
    ELSE splitLoop(n, n.children, 0, pageHeaderSize, <<>>, <<>>)

\* ---------------------------------------------------------- freelist
\* the scan of freelist.allocate from index i (0-based) on
RECURSIVE allocateScan(_, _, _, _, _)
allocateScan(ids, n, i, count, previd) ==
    IF i >= Len(ids) THEN [id |-> 0, ids |-> ids, panic |-> FALSE]
    ELSE LET id == ids[i + 1]
             c == IF previd = 0 \/ previd - id # 1 THEN 1 ELSE count
         IN IF c = n
            THEN [id |-> id, ids |-> SliceCut(ids, i - (n - 1), i + 1), panic |-> id <= 1]
            ELSE allocateScan(ids, n, i + 1, c + 1, id)

\* an allocate that returns the id and leaves the list as it is
freelistAllocateKept(ids, n) == [allocateScan(ids, n, 0, 0, 0) EXCEPT !.ids = ids]

\* an allocate that takes the last run of the list, the one with the lowest ids
freelistAllocateLowest(ids, n) ==
    LET starts == {i \in 0..(Len(ids) - n) :
                     n >= 1 /\ \A k \in 1..(n - 1) : ids[i + k] - ids[i + k + 1] = 1}
    IN IF starts = {} THEN [id |-> 0, ids |-> ids, panic |-> FALSE]
       ELSE LET i == CHOOSE x \in starts : \A y \in starts : y <= x
            IN [id |-> ids[i + n], ids |-> SliceCut(ids, i, i + n),
                panic |-> ids[i + n] <= 1]

\* freelist.allocate
freelistAllocate(ids, n) == allocateScan(ids, n, 0, 0, 0)

\* a free that takes the first page only and leaves the overflow pages out
freelistFreeFirst(fl, txid, p) ==
    LET old == IF txid \in DOMAIN fl.pending THEN fl.pending[txid] ELSE <<>>
    IN [fl EXCEPT !.pending = (txid :> Append(old, p.id)) @@ fl.pending]

\* freelist.free: p.id .. p.id+overflow are appended to pending[txid]
freelistFree(fl, txid, p) ==
    LET old == IF txid \in DOMAIN fl.pending THEN fl.pending[txid] ELSE <<>>
        new == old \o [i \in 1..(p.overflow + 1) |-> p.id + i - 1]
    IN [fl EXCEPT !.pending = (txid :> new) @@ fl.pending]

\* freelist.release
freelistRelease(fl, txid) == fl

\* freelist.read
freelistRead(p) == [ids |-> p.ptr, pending |-> <<>>]

\* ----------------------------------------------------------- buckets
\* sort.StringSlice(keys).Sort()
RECURSIVE sortNames(_)
sortNames(names) ==
    IF names = {} THEN <<>>
    ELSE LET m == CHOOSE x \in names : \A y \in names : x <= y
         IN <<m>> \o sortNames(names \ {m})

\* the loop of buckets.size over the names
RECURSIVE sumNameSizes(_)
sumNameSizes(names) ==
    IF names = {} THEN 0
    ELSE LET name == CHOOSE x \in names : TRUE
         IN bucketSize + NameLen(name) + sumNameSizes(names \ {name})

\* buckets.size
bucketsSize(bucketMap) == pageHeaderSize + sumNameSizes(DOMAIN bucketMap)

\* buckets.write: the offset in the page behind the i-th name; the names follow
\* the bucket structs, each after one byte for its length
RECURSIVE nameEnd(_, _)
nameEnd(keys, i) ==
    IF i = 0 THEN pageHeaderSize + Len(keys) * bucketSize
    ELSE nameEnd(keys, i - 1) + 1 + NameLen(keys[i])

\* buckets.write: what RWTransaction.write will find in the pages of p; a name
\* that ends behind them is cut
bucketsWrite(bucketMap, p) ==
    LET keys == sortNames(DOMAIN bucketMap)
    IN [p EXCEPT !.flags = bucketsPageFlag,
                 !.count = Len(keys),
                 !.ptr = [i \in 1..Len(keys) |->
                            [name |-> IF nameEnd(keys, i) > (p.overflow + 1) * pageSize
                                      THEN TornName ELSE keys[i],
                             rootPageID |-> bucketMap[keys[i]].rootPageID,
                             sequence |-> bucketMap[keys[i]].sequence]]]

\* buckets.read reads behind the end of the page
bucketsTorn(p) == \E i \in 1..p.count : p.ptr[i].name = TornName

\* buckets.write behind the end of the buffer has written into memory that is not
\* the page's: TRUE when the process stops, FALSE when it goes on
overflowOutcomes(pages, id) ==
    IF id \in DOMAIN pages /\ bucketsTorn(pages[id]) THEN BOOLEAN ELSE {FALSE}

\* buckets.read
bucketsRead(p) ==
    [name \in {p.ptr[i].name : i \in 1..p.count} |->
        LET i == CHOOSE j \in 1..p.count : p.ptr[j].name = name
        IN [rootPageID |-> p.ptr[i].rootPageID, sequence |-> p.ptr[i].sequence]]

\* buckets.updateRootPageID: the first bucket found with the old root
updateRootPageID(bucketMap, oldid, newid) ==
    LET hit == {name \in DOMAIN bucketMap : bucketMap[name].rootPageID = oldid}
    IN IF hit = {} THEN bucketMap
       ELSE [bucketMap EXCEPT ![CHOOSE name \in hit : TRUE].rootPageID = newid]

\* ------------------------------------------------- mmap and allocate
\* The state a write operation works on:
\*   heap, cache   the node objects and the keys of RWTransaction.nodes
\*   pages, meta, buckets   the transaction's dirty pages, meta copy, catalog
\*   fl, mmapLen   the database's freelist and the length of the mapping
\*   fails         the mmap calls that are still going to fail
\*   p             the page id of the last allocation
\*   err, panic    an error was returned / an assertion or index check failed
\*   remapped      DB.mmap was called

\* DB.mmapSize
mmapSize(size) ==
    IF size < minMmapSize THEN minMmapSize
    ELSE LET sz == IF size < maxMmapStep THEN size * 2 ELSE size + maxMmapStep
         IN IF sz % pageSize # 0 THEN ((sz \div pageSize) + 1) * pageSize ELSE sz

\* an inode whose key and value are slices of the mapping carries the field mm:
\* TRUE while the region is mapped, FALSE once it is unmapped
inMmap(inode) == "mm" \in DOMAIN inode /\ inode.mm

dangling(inode) == "mm" \in DOMAIN inode /\ ~inode.mm

hasDangling(n) == \E i \in DOMAIN n.children : dangling(n.children[i])

\* node.read of a page of the mapping: elem.key() and elem.value() are slices of it
nodeMapped(n) ==
    [n EXCEPT !.children = [i \in DOMAIN @ |->
        [key |-> @[i].key, value |-> @[i].value, pageID |-> @[i].pageID, mm |-> TRUE]]]

\* node.dereference: the key and the value of every inode are copied to the heap
nodeDereference(n) ==
    [n EXCEPT !.children = [i \in DOMAIN @ |->
        IF dangling(@[i]) THEN @[i]
        ELSE [key |-> @[i].key, value |-> @[i].value, pageID |-> @[i].pageID]]]

\* RWTransaction.dereference: the nodes of t.nodes and of t.pending
rwtxDereference(R) ==
    [R EXCEPT !.heap = [id \in DOMAIN @ |->
                          IF id \in R.cache \cup R.pending THEN nodeDereference(@[id])
                          ELSE @[id]],
              !.stale = @ \/ \E id \in R.cache \cup R.pending : hasDangling(R.heap[id])]

\* DB.munmap: the slices of the region that are left in the nodes dangle
dbMunmap(R) ==
    [R EXCEPT !.heap = [id \in DOMAIN @ |->
        [@[id] EXCEPT !.children = [i \in DOMAIN @ |->
            IF inMmap(@[i]) THEN [@[i] EXCEPT !.mm = FALSE] ELSE @[i]]]]]

\* DB.mmap: dereference, unmap, then map mmapSize(minsz) bytes; Stat or Mmap may fail
dbMmap(R, minsz) ==
    LET U == dbMunmap(rwtxDereference(R))
    IN IF U.fails > 0
       THEN [U EXCEPT !.mmapLen = 0, !.fails = U.fails - 1, !.err = TRUE, !.remapped = TRUE]
       ELSE [U EXCEPT !.mmapLen = mmapSize(minsz), !.err = FALSE, !.remapped = TRUE]

\* the page DB.allocate returns
newPage(id, count) ==
    [id |-> id, flags |-> 0, count |-> 0, overflow |-> count - 1, ptr |-> <<>>]

\* an allocate that leaves the high water mark where it is
rwtxAllocateNoAdvance(R, count) ==
    LET id == R.meta.pageID
    IN [R EXCEPT !.p = id, !.err = FALSE,
                 !.pages = (id :> newPage(id, count)) @@ R.pages]

\* an allocate that returns the page and leaves it out of the dirty pages
rwtxAllocateUncached(R, count) ==
    LET id == R.meta.pageID
    IN [R EXCEPT !.meta.pageID = id + count, !.p = id, !.err = FALSE]

\* DB.allocate followed by RWTransaction.allocate's t.pages[p.id] = p
rwtxAllocate(R, count) ==
    LET a == freelistAllocate(R.fl.ids, count)
    IN IF a.panic THEN [R EXCEPT !.panic = TRUE]
       ELSE IF a.id # 0
       THEN [R EXCEPT !.fl.ids = a.ids, !.p = a.id, !.err = FALSE,
                      !.pages = (a.id :> newPage(a.id, count)) @@ R.pages]
       ELSE LET id == R.meta.pageID
                minsz == (id + count + 1) * pageSize
                M == IF minsz >= R.mmapLen THEN dbMmap(R, minsz)
                     ELSE [R EXCEPT !.err = FALSE]
            IN IF M.err THEN M
               ELSE [M EXCEPT !.meta.pageID = id + count, !.p = id,
                              !.pages = (id :> newPage(id, count)) @@ R.pages]

\* RWTransaction.node: the cached node of a page, read from the page if new
rwtxNode(f, R, pageID, parent) ==
    IF pageID \in R.cache THEN R
    ELSE LET depth == IF parent # 0 THEN R.heap[parent].depth + 1 ELSE 0
             n == nodeRead(txPage(f, R.pages, pageID), parent, depth)
         IN [R EXCEPT !.heap = (pageID :> IF pageID \in DOMAIN R.pages THEN n
                                          ELSE nodeMapped(n)) @@ R.heap,
                      !.cache = R.cache \cup {pageID}]

\* Cursor.node: the nodes along the cursor's stack; nid is the leaf's node
RECURSIVE cursorNodeFrom(_, _, _, _, _)
cursorNodeFrom(f, R, stack, i, nid) ==
    LET n == R.heap[nid]
    IN IF i >= Len(stack)
       THEN [R |-> [R EXCEPT !.panic = ~n.isLeaf \/ n.pageID # stack[Len(stack)].page.id],
             nid |-> nid]
       ELSE IF n.isLeaf \/ stack[i].page.id # n.pageID
               \/ stack[i].index >= Len(n.children)
       THEN [R |-> [R EXCEPT !.panic = TRUE], nid |-> nid]
       ELSE LET child == n.children[stack[i].index + 1].pageID
            IN cursorNodeFrom(f, rwtxNode(f, R, child, nid), stack, i + 1, child)

cursorNode(f, R, stack) ==
    IF stack = <<>> THEN [R |-> [R EXCEPT !.panic = TRUE], nid |-> 0]
    ELSE cursorNodeFrom(f, rwtxNode(f, R, stack[1].page.id, 0), stack, 1, stack[1].page.id)


\* ---------------------------------------------------------- rebalance
\* node.childIndex
childIndex(n, child) == sortSearch(KeysOf(n.children), child.key)

\* child.parent = parent for every inode whose node is in the cache
reparent(R, inodes, parent) ==
    [R EXCEPT !.heap = [id \in DOMAIN R.heap |->
        IF id \in R.cache /\ \E i \in 1..Len(inodes) : inodes[i].pageID = id
        THEN [R.heap[id] EXCEPT !.parent = parent]
        ELSE R.heap[id]]]

\* node.rebalance on a root: a branch with one child takes the child's place
rebalanceRoot(R, nid) ==
    LET n == R.heap[nid]
    IN IF n.isLeaf \/ Len(n.children) # 1 THEN R
       ELSE LET cid == n.children[1].pageID
            IN IF cid \notin R.cache THEN [R EXCEPT !.panic = TRUE]
               ELSE LET child == R.heap[cid]
                        R1 == [R EXCEPT !.heap[nid].isLeaf = child.isLeaf,
                                        !.heap[nid].children = child.children]
                        R2 == reparent(R1, child.children, nid)
                    IN [R2 EXCEPT !.heap[cid].parent = 0,
                                  !.cache = R2.cache \ {child.pageID}]

\* node.rebalance: the target has extra children, one is moved over
rebalanceBorrow(R, nid, tid, useNextSibling) ==
    LET target == R.heap[tid]
        moved == IF useNextSibling THEN target.children[1]
                 ELSE target.children[Len(target.children)]
        Ra == reparent(R, <<moved>>, nid)
        Rb == IF useNextSibling
              THEN LET X == [Ra EXCEPT !.heap[nid].children = Append(@, moved),
                                       !.heap[tid].children = Tail(@)]
                       tg == X.heap[tid]
                   IN [X EXCEPT !.heap[tg.parent] =
                                    nodePut(@, tg.key, tg.children[1].key, 0, tg.pageID),
                                !.heap[tid].key = tg.children[1].key]
              ELSE [Ra EXCEPT !.heap[nid].children = <<moved>> \o @,
                              !.heap[tid].children = SubSeq(@, 1, Len(@) - 1)]
        m == Rb.heap[nid]
    IN [Rb EXCEPT !.heap[m.parent] = nodePut(@, m.key, m.children[1].key, 0, m.pageID),
                  !.heap[nid].key = m.children[1].key]

\* node.rebalance: the node and the target are merged
rebalanceMerge(R, nid, tid, useNextSibling) ==
    LET n == R.heap[nid]
        target == R.heap[tid]
    IN IF useNextSibling
       THEN LET Ra == reparent(R, target.children, nid)
            IN [Ra EXCEPT !.heap[nid].children = @ \o target.children,
                          !.heap[n.parent] = nodeDel(@, target.key),
                          !.cache = @ \ {target.pageID}]
       ELSE LET Ra == reparent(R, n.children, tid)
                Rb == [Ra EXCEPT !.heap[tid].children = @ \o n.children,
                                 !.heap[n.parent] = nodeDel(@, n.key)]
                tg == Rb.heap[tid]
            IN IF tg.children = <<>> THEN [Rb EXCEPT !.panic = TRUE]
               ELSE [Rb EXCEPT !.heap[n.parent] =
                                   nodePut(@, tg.key, tg.children[1].key, 0, tg.pageID),
                               !.cache = @ \ {n.pageID}]

\* node.rebalance
RECURSIVE nodeRebalance(_, _, _)
nodeRebalance(f, R, nid) ==
    LET n == R.heap[nid]
    IN IF R.panic \/ ~n.unbalanced THEN R
       ELSE LET R1 == [R EXCEPT !.heap[nid].unbalanced = FALSE]
            IN IF nodeSize(n) > pageSize \div 4 /\ Len(n.children) > minKeys(n) THEN R1
               ELSE IF n.parent = 0 THEN rebalanceRoot(R1, nid)
               ELSE IF Len(R1.heap[n.parent].children) < 2 THEN [R1 EXCEPT !.panic = TRUE]
               ELSE LET index == childIndex(R1.heap[n.parent], n)
                        useNextSibling == index = 0
                        tindex == IF useNextSibling THEN index + 1 ELSE index - 1
                        tid == R1.heap[n.parent].children[tindex + 1].pageID
                        R2 == rwtxNode(f, R1, tid, n.parent)
                    IN IF Len(R2.heap[tid].children) > minKeys(R2.heap[tid])
                       THEN rebalanceBorrow(R2, nid, tid, useNextSibling)
                       ELSE nodeRebalance(f, rebalanceMerge(R2, nid, tid, useNextSibling),
                                          n.parent)

\* RWTransaction.rebalance: the cached nodes are visited in the order given (a map
\* iteration); a node deleted from the cache before its turn is not visited
RECURSIVE rwtxRebalance(_, _, _)
rwtxRebalance(f, R, order) ==
    IF order = <<>> THEN R
    ELSE rwtxRebalance(f, IF Head(order) \in R.cache THEN nodeRebalance(f, R, Head(order))
                          ELSE R,
                       Tail(order))

\* -------------------------------------------------------------- spill
\* node.root
RECURSIVE nodeRoot(_, _)
nodeRoot(heap, nid) == IF heap[nid].parent = 0 THEN nid ELSE nodeRoot(heap, heap[nid].parent)

\* the loop of RWTransaction.spill over the nodes a split returned
RECURSIVE spillWrite(_, _, _, _)
spillWrite(R, nid, ids, i) ==
    IF R.panic \/ i >= Len(ids) THEN R
    ELSE LET id == ids[i + 1]
             newNode == R.heap[id]
             A == rwtxAllocate(R, (nodeSize(newNode) \div pageSize) + 1)
         IN IF A.panic \/ A.err THEN A
            ELSE LET parent == A.heap[nid].parent
                     W == [A EXCEPT !.pages[A.p] = nodeWrite(newNode, @),
                                    !.heap[id].pageID = A.p,
                                    !.heap[id].parent = parent,
                                    !.stale = @ \/ hasDangling(A.heap[id])]
                     oldKey == IF i = 0 THEN A.heap[nid].key ELSE newNode.children[1].key
                 IN IF parent = 0 THEN spillWrite(W, nid, ids, i + 1)
                    ELSE IF newNode.children = <<>> THEN [W EXCEPT !.panic = TRUE]
                    ELSE spillWrite([W EXCEPT !.heap[parent] =
                                         nodePutKeyOf(@, oldKey, A.heap[id].children[1], A.p)],
                                    nid, ids, i + 1)

\* the end of RWTransaction.spill: the roots are updated, the cache is cleared
RECURSIVE spillRoots(_, _, _)
spillRoots(R, roots, i) ==
    IF i > Len(roots) THEN [R EXCEPT !.cache = {}]
    ELSE spillRoots([R EXCEPT !.buckets = updateRootPageID(@, roots[i].pageID,
                                  R.heap[nodeRoot(R.heap, roots[i].node)].pageID)],
                    roots, i + 1)

\* the loop of RWTransaction.spill over the nodes (deepest first)
RECURSIVE spillLoop(_, _, _, _, _)
spillLoop(f, R, nodes, i, roots) ==
    IF R.panic \/ R.err THEN R
    ELSE IF i >= Len(nodes) THEN spillRoots(R, roots, 1)
    ELSE LET nid == nodes[i + 1]
             n == R.heap[nid]
             roots1 == IF n.parent = 0 /\ n.pageID # 0
                       THEN Append(roots, [node |-> nid, pageID |-> n.pageID])
                       ELSE roots
             parts == nodeSplit(n)
             k == Len(parts)
             newIds == <<nid>> \o [j \in 1..(k - 1) |-> 0 - (R.fresh + j)]
             synth == n.parent = 0 /\ k > 1
             pid == 0 - (R.fresh + k)
             H1 == [j \in 1..(k - 1) |-> [NilNode EXCEPT !.isLeaf = n.isLeaf,
                                                         !.children = parts[j + 1]]]
             H2 == [id \in DOMAIN R.heap \cup {newIds[j] : j \in 1..k}
                               \cup (IF synth THEN {pid} ELSE {}) |->
                      IF id = nid
                      THEN [n EXCEPT !.children = parts[1],
                                     !.parent = IF synth THEN pid ELSE n.parent]
                      ELSE IF id \in DOMAIN R.heap THEN R.heap[id]
                      ELSE IF id = pid /\ synth THEN NilNode
                      ELSE H1[CHOOSE j \in 1..(k - 1) : newIds[j + 1] = id]]
             R1 == [R EXCEPT !.heap = H2, !.fresh = R.fresh + k,
                             !.pending = {newIds[j] : j \in 1..k}]
             unmapped == n.pageID \notin DOMAIN R.pages /\ n.pageID * pageSize >= R.mmapLen
             R2 == IF n.pageID = 0 THEN R1
                   ELSE IF n.pageID <= 1 \/ unmapped THEN [R1 EXCEPT !.panic = TRUE]
                   ELSE [R1 EXCEPT !.fl = freelistFree(@, R.meta.txID,
                                                       txPage(f, R.pages, n.pageID))]
             R3 == spillWrite(R2, nid, newIds, 0)
         IN spillLoop(f, IF R3.panic \/ R3.err THEN R3 ELSE [R3 EXCEPT !.pending = {}],
                      IF synth THEN Append(nodes, pid) ELSE nodes, i + 1, roots1)

\* all the orders in which the elements of a set can be listed
RECURSIVE Perms(_)
Perms(S) ==
    IF S = {} THEN {<<>>}
    ELSE UNION {{<<x>> \o q : q \in Perms(S \ {x})} : x \in S}

\* the orders sort.Sort(nodesByDepth) can give the cached nodes
spillOrders(R) ==
    {o \in Perms(R.cache) :
        \A i, j \in 1..Len(o) : i < j => R.heap[o[i]].depth >= R.heap[o[j]].depth}

\* the orders in which RWTransaction.rebalance can meet the unbalanced nodes
\* (node.rebalance returns at once on every other node)
rebalanceOrders(R) == Perms({id \in R.cache : R.heap[id].unbalanced})


\* ------------------------------------------------------------- reads
\* the pages DB.page can reach: those that start inside the mapping
mapped(f, len) == [id \in {i \in DOMAIN f : i * pageSize < len} |-> f[id]]

\* Transaction.init: the meta copy and the buckets read from the buckets page
txInit(f) ==
    IF 0 \notin DOMAIN f \/ 1 \notin DOMAIN f
    THEN [panic |-> TRUE, meta |-> NilMeta, buckets |-> <<>>]
    ELSE IF dbMeta(f).bucketsPageID \notin DOMAIN f
    THEN [panic |-> TRUE, meta |-> dbMeta(f), buckets |-> <<>>]
    ELSE IF LET p == f[dbMeta(f).bucketsPageID]
            IN bucketsTorn(p) /\ p.id + p.overflow + 1 \notin DOMAIN f
    THEN [panic |-> TRUE, meta |-> dbMeta(f), buckets |-> <<>>]
    ELSE [panic |-> FALSE, meta |-> dbMeta(f),
          buckets |-> bucketsRead(f[dbMeta(f).bucketsPageID])]

\* a Get that reads the cached node of the writer when the root of the bucket is
\* a cached leaf
txGetNodes(f, pages, bucketMap, name, key) ==
    IF name \notin DOMAIN bucketMap THEN [value |-> 0, err |-> TRUE, panic |-> FALSE]
    ELSE LET root == bucketMap[name].rootPageID
         IN IF root \in rwtx.cache /\ rwtx.heap[root].isLeaf
            THEN LET c == rwtx.heap[root].children
                     hit == {i \in 1..Len(c) : c[i].key = key}
                 IN [value |-> IF hit = {} THEN 0 ELSE c[CHOOSE i \in hit : TRUE].value,
                     err |-> FALSE, panic |-> FALSE]
            ELSE LET g == cursorGet(f, pages, root, key)
                 IN [value |-> g.value, err |-> FALSE, panic |-> g.panic]

\* Transaction.Get: err is TRUE for ErrBucketNotFound
txGet(f, pages, bucketMap, name, key) ==
    IF name \notin DOMAIN bucketMap THEN [value |-> 0, err |-> TRUE, panic |-> FALSE]
    ELSE LET g == cursorGet(f, pages, bucketMap[name].rootPageID, key)
         IN [value |-> g.value, err |-> FALSE, panic |-> g.panic]

\* Transaction.Buckets: the lists that the range over bucketMap can produce, the
\* order of a range over a map being any order
txBucketsLists(bucketMap) == Perms(DOMAIN bucketMap)

\* Transaction.Buckets with Transaction.ForEach on each: what a transaction reads
readState(f, bucketMap) ==
    [name \in DOMAIN bucketMap |->
        [sequence |-> bucketMap[name].sequence,
         items |-> cursorForEach(f, <<>>, bucketMap[name].rootPageID)]]

\* what a read transaction begun on the mapped file f reads
observe(f) ==
    LET tx == txInit(f)
    IN IF tx.panic THEN [panic |-> TRUE, state |-> <<>>]
       ELSE [panic |-> FALSE, state |-> readState(f, tx.buckets)]

\* --------------------------------------------------------- the state
NoOp == [kind |-> "", name |-> 0]

NoTx == [meta |-> NilMeta, buckets |-> <<>>, snap |-> <<>>, began |-> <<>>]

NoRwtx == [owner |-> 0, meta |-> NilMeta, buckets |-> <<>>, pages |-> <<>>,
           heap |-> <<>>, cache |-> {}, bucketsPageID |-> 0, blocked |-> NoOp]

NoFreelist == [ids |-> <<>>, pending |-> <<>>]

NoLock == [readers |-> 0, writer |-> 0]

NoRet == [op |-> "", err |-> ""]

\* a call of the write transaction: its name, its arguments and the value returned
Call(op, name, key, out) == [op |-> op, name |-> name, key |-> key, out |-> out]

NoCall == Call("", 0, 0, 0)

\* WriteAt: the bytes of p replace whatever the file held at p.id .. p.id+overflow
fileWrite(f, p) ==
    [id \in {i \in DOMAIN f : i + f[i].overflow < p.id \/ i > p.id + p.overflow}
            \cup {p.id} |->
        IF id = p.id THEN p ELSE f[id]]

\* DB.Open on a new file: init, mmap(0), the freelist is read
Init ==
    /\ file = dbInit
    /\ opened = TRUE
    /\ mmapLen = mmapSize(0)
    /\ freelist = freelistRead(dbInit[dbMeta(dbInit).freelistPageID])
    /\ txs = [t \in Threads |-> NoTx]
    /\ rwtx = NoRwtx
    /\ rwlock = 0
    /\ metalock = 0
    /\ mmaplock = NoLock
    /\ pc = [t \in Threads |-> "idle"]
    /\ view = <<>>
    /\ committed = <<>>
    /\ hist = [ret |-> NoRet, faults |-> 0, crash |-> "", spillErr |-> FALSE, stale |-> FALSE,
               metaOk |-> FALSE, stable |-> observe(mapped(dbInit, mmapSize(0))),
               meta |-> dbMeta(dbInit), log |-> FALSE, call |-> NoCall]

\* the process stops (a crash, a panic or a fatal signal): only the file is left
Stopped(h) ==
    /\ opened' = FALSE
    /\ mmapLen' = 0
    /\ freelist' = NoFreelist
    /\ txs' = [t \in DOMAIN txs |-> NoTx]
    /\ rwtx' = NoRwtx
    /\ rwlock' = 0
    /\ metalock' = 0
    /\ mmaplock' = NoLock
    /\ pc' = [t \in DOMAIN pc |-> "idle"]
    /\ view' = <<>>
    /\ hist' = h
    /\ UNCHANGED <<file, committed>>

Panic == Stopped([hist EXCEPT !.crash = "panic"])

\* the process is stopped from outside at any point
Crash ==
    /\ opened
    /\ hist.faults < MaxFaults
    /\ Stopped([hist EXCEPT !.faults = @ + 1,
                            !.crash = IF rwtx.owner = 0 THEN "idle" ELSE pc[rwtx.owner]])

\* a call on the database returns err at once, under the meta lock
Refused(op, err) ==
    /\ metalock = 0
    /\ hist' = [hist EXCEPT !.ret = [op |-> op, err |-> err]]
    /\ UNCHANGED <<file, opened, mmapLen, freelist, txs, rwtx, rwlock, metalock, mmaplock,
                   pc, view, committed>>

\* an Open that opens the database again when it is open
OpenAgain ==
    /\ metalock = 0
    /\ opened' = TRUE
    /\ mmapLen' = mmapSize(0)
    /\ freelist' = freelistRead(mapped(file, mmapSize(0))[dbMeta(file).freelistPageID])
    /\ hist' = [hist EXCEPT !.ret = [op |-> "Open", err |-> "nil"]]
    /\ UNCHANGED <<file, txs, rwtx, rwlock, metalock, mmaplock, pc, view, committed>>

\* DB.Open on the existing file
Open ==
    IF opened THEN Refused("Open", "DatabaseOpen")
    ELSE /\ metalock = 0
         /\ opened' = TRUE
         /\ mmapLen' = mmapSize(0)
         /\ freelist' = freelistRead(mapped(file, mmapSize(0))[dbMeta(file).freelistPageID])
         /\ UNCHANGED <<file, txs, rwtx, rwlock, metalock, mmaplock, pc, view, committed,
                        hist>>

\* DB.Close
Close ==
    /\ metalock = 0
    /\ opened' = FALSE
    /\ freelist' = NoFreelist
    /\ mmapLen' = 0
    /\ UNCHANGED <<file, txs, rwtx, rwlock, metalock, mmaplock, pc, view, committed, hist>>

\* ------------------------------------------------- read transactions
\* a txBegin that takes the read lock while a remap is waiting for the lock
TxBeginAtOnce(t) ==
    /\ pc[t] = "idle"
    /\ metalock = 0
    /\ opened
    /\ LET f == mapped(file, mmapLen)
           tx == txInit(f)
       IN /\ ~tx.panic
          /\ txs' = [txs EXCEPT ![t] = [meta |-> tx.meta, buckets |-> tx.buckets,
                                        snap |-> readState(f, tx.buckets),
                                        began |-> committed]]
          /\ mmaplock' = [mmaplock EXCEPT !.readers = @ + 1]
          /\ pc' = [pc EXCEPT ![t] = "reading"]
          /\ UNCHANGED <<file, opened, mmapLen, freelist, rwtx, rwlock, metalock, view,
                         committed, hist>>

\* DB.txBegin: under the meta lock; blocks in RLock while a remap is waiting
TxBegin(t) ==
    /\ IF pc[t] = "idle" THEN metalock = 0
       ELSE pc[t] = "rlockWait" /\ mmaplock.writer = 0
    /\ IF ~opened THEN pc[t] = "idle" /\ Refused("txBegin", "DatabaseNotOpen")
       ELSE IF mmaplock.writer # 0
       THEN /\ metalock' = t
            /\ pc' = [pc EXCEPT ![t] = "rlockWait"]
            /\ UNCHANGED <<file, opened, mmapLen, freelist, txs, rwtx, rwlock, mmaplock,
                           view, committed, hist>>
       ELSE LET f == mapped(file, mmapLen)
                tx == txInit(f)
            IN IF tx.panic THEN Panic
               ELSE /\ txs' = [txs EXCEPT ![t] = [meta |-> tx.meta, buckets |-> tx.buckets,
                                                  snap |-> readState(f, tx.buckets),
                                                  began |-> committed]]
                    /\ mmaplock' = [mmaplock EXCEPT !.readers = @ + 1]
                    /\ metalock' = 0
                    /\ pc' = [pc EXCEPT ![t] = "reading"]
                    /\ UNCHANGED <<file, opened, mmapLen, freelist, rwtx, rwlock, view,
                                   committed, hist>>

\* Transaction.Close with DB.txEnd
TxClose(t) ==
    /\ pc[t] = "reading"
    /\ metalock = 0
    /\ txs' = [txs EXCEPT ![t] = NoTx]
    /\ mmaplock' = [mmaplock EXCEPT !.readers = @ - 1]
    /\ pc' = [pc EXCEPT ![t] = "idle"]
    /\ UNCHANGED <<file, opened, mmapLen, freelist, rwtx, rwlock, metalock, view,
                   committed, hist>>

\* the catalog of the active meta, whatever the transaction
activeBuckets(t) == txInit(mapped(file, mmapLen)).buckets

\* Transaction.Bucket, Transaction.Buckets: the catalog read by Transaction.init
txBuckets(t) == txs[t].buckets

\* ------------------------------------------------ write transactions
\* the minid loop of DB.rwtxBegin over db.txs; without a read transaction minid
\* stays at its initial value, which is above every transaction id
minReaderTxID ==
    LET ids == {txs[r].meta.txID : r \in {q \in DOMAIN pc : pc[q] = "reading"}}
    IN IF ids = {} THEN MaxTxID + TreeMaxTxID
       ELSE CHOOSE m \in ids : \A x \in ids : m <= x

\* DB.rwtxBegin after rwlock.Lock(): RWTransaction.init, the readers' minimum
\* transaction id, freelist.release; maxTx bounds the transaction ids
rwtxStart(t, maxTx) ==
    LET tx == txInit(mapped(file, mmapLen))
    IN IF tx.panic THEN Panic
       ELSE /\ tx.meta.txID + 1 <= maxTx
            /\ rwlock' = t
            /\ metalock' = 0
            /\ rwtx' = [NoRwtx EXCEPT !.owner = t,
                                      !.meta = [tx.meta EXCEPT !.txID = @ + 1],
                                      !.buckets = tx.buckets]
            /\ freelist' = IF minReaderTxID > 0
                           THEN freelistRelease(freelist, minReaderTxID - 1)
                           ELSE freelist
            /\ pc' = [pc EXCEPT ![t] = "writing"]
            /\ view' = committed
            /\ hist' = [hist EXCEPT !.ret = NoRet, !.crash = "", !.spillErr = FALSE, !.stale = FALSE,
                                    !.metaOk = FALSE, !.call = NoCall]
            /\ UNCHANGED <<file, opened, mmapLen, txs, mmaplock, committed>>

\* a begin_write that does not wait for the writer lock
RwtxBeginUnlocked(t, maxTx) ==
    /\ opened
    /\ pc[t] = "idle"
    /\ metalock = 0
    /\ rwtxStart(t, maxTx)

\* DB.rwtxBegin: the meta lock is held while the writer lock is waited for
RwtxBegin(t, maxTx) ==
    /\ IF pc[t] = "idle" THEN metalock = 0
       ELSE pc[t] = "rwlockWait" /\ rwlock = 0
    /\ IF ~opened THEN pc[t] = "idle" /\ Refused("rwtxBegin", "DatabaseNotOpen")
       ELSE IF rwlock # 0
       THEN /\ metalock' = t
            /\ pc' = [pc EXCEPT ![t] = "rwlockWait"]
            /\ UNCHANGED <<file, opened, mmapLen, freelist, txs, rwtx, rwlock, mmaplock,
                           view, committed, hist>>
       ELSE rwtxStart(t, maxTx)

\* the state a write operation of the current transaction starts from
startR(fails) ==
    [heap |-> rwtx.heap, cache |-> rwtx.cache, pages |-> rwtx.pages, meta |-> rwtx.meta,
     buckets |-> rwtx.buckets, fl |-> freelist, mmapLen |-> mmapLen, fails |-> fails,
     p |-> 0, err |-> FALSE, panic |-> FALSE, remapped |-> FALSE, fresh |-> 0,
     pending |-> {}, stale |-> FALSE]

\* the call returns: what it leaves in the transaction and in the database
Returns(t, R, fails, call, err) ==
    /\ rwtx' = [rwtx EXCEPT !.heap = R.heap, !.cache = R.cache, !.pages = R.pages,
                            !.meta = R.meta, !.buckets = R.buckets, !.blocked = NoOp]
    /\ freelist' = R.fl
    /\ mmapLen' = R.mmapLen
    /\ mmaplock' = [mmaplock EXCEPT !.writer = 0]
    /\ pc' = [pc EXCEPT ![t] = "writing"]
    /\ hist' = [hist EXCEPT !.ret = [op |-> "call", err |-> err],
                            !.call = IF hist.log THEN call ELSE NoCall,
                            !.faults = IF R.fails < fails THEN @ + 1 ELSE @]
    /\ UNCHANGED <<file, opened, txs, rwlock, metalock, committed>>

\* DB.mmap waits in mmaplock.Lock() until the read transactions are closed
Blocks(t, op) ==
    /\ rwtx' = [rwtx EXCEPT !.blocked = op]
    /\ mmaplock' = [mmaplock EXCEPT !.writer = t]
    /\ pc' = [pc EXCEPT ![t] = "mmapWait"]
    /\ UNCHANGED <<file, opened, mmapLen, freelist, txs, rwlock, metalock, view,
                   committed, hist>>

\* the thread is in its write transaction and may make the call op
MayCall(t, op) ==
    /\ rwtx.owner = t
    /\ IF pc[t] = "mmapWait" THEN rwtx.blocked = op /\ mmaplock.readers = 0
       ELSE pc[t] = "writing"

\* the expected contents after the calls of the write transaction
viewPut(v, name, key, value) ==
    IF name \in DOMAIN v THEN [v EXCEPT ![name].kv = (key :> value) @@ @] ELSE v

viewDelete(v, name, key) ==
    IF name \in DOMAIN v
    THEN [v EXCEPT ![name].kv = [k \in DOMAIN @ \ {key} |-> @[k]]]
    ELSE v

viewCreate(v, name) == (name :> [sequence |-> 0, kv |-> <<>>]) @@ v

viewDrop(v, name) == [b \in DOMAIN v \ {name} |-> v[b]]

\* a CreateBucket that takes a name of MaxBucketNameSize bytes for too large
createBucketShort(t, name, fails, ifNotExists) ==
    LET kind == IF ifNotExists THEN "CreateBucketIfNotExists" ELSE "CreateBucket"
        call == Call(kind, name, 0, 0)
        A == rwtxAllocate(startR(fails), 1)
    IN /\ MayCall(t, [kind |-> kind, name |-> name])
       /\ IF name \in DOMAIN rwtx.buckets
          THEN Returns(t, startR(fails), fails, call,
                       IF ifNotExists THEN "nil" ELSE "BucketExists")
               /\ UNCHANGED view
          ELSE IF NameLen(name) = 0
          THEN Returns(t, startR(fails), fails, call, "BucketNameRequired")
               /\ UNCHANGED view
          ELSE IF NameLen(name) >= MaxBucketNameSize
          THEN Returns(t, startR(fails), fails, call, "BucketNameTooLarge")
               /\ UNCHANGED view
          ELSE /\ Returns(t, [A EXCEPT !.pages[A.p].flags = leafPageFlag,
                                       !.buckets = (name :> [rootPageID |-> A.p,
                                                             sequence |-> 0]) @@ @],
                          fails, call, "nil")
               /\ view' = viewCreate(view, name)

\* the body of RWTransaction.CreateBucket; ifNotExists is TRUE when it is called
\* from CreateBucketIfNotExists, which turns ErrBucketExists into nil
createBucket(t, name, fails, ifNotExists) ==
    LET kind == IF ifNotExists THEN "CreateBucketIfNotExists" ELSE "CreateBucket"
        op == [kind |-> kind, name |-> name]
        call == Call(kind, name, 0, 0)
        A == rwtxAllocate(startR(fails), 1)
    IN /\ MayCall(t, op)
       /\ fails > 0 => hist.faults < MaxFaults
       /\ IF name \in DOMAIN rwtx.buckets
          THEN Returns(t, startR(fails), fails, call,
                       IF ifNotExists THEN "nil" ELSE "BucketExists")
               /\ UNCHANGED view
          ELSE IF NameLen(name) = 0
          THEN Returns(t, startR(fails), fails, call, "BucketNameRequired")
               /\ UNCHANGED view
          ELSE IF NameLen(name) > MaxBucketNameSize
          THEN Returns(t, startR(fails), fails, call, "BucketNameTooLarge")
               /\ UNCHANGED view
          ELSE IF A.remapped /\ mmaplock.readers > 0 THEN Blocks(t, op)
          ELSE IF A.panic THEN Panic
          ELSE IF A.err
          THEN Returns(t, A, fails, call, "mmap allocate error") /\ UNCHANGED view
          ELSE /\ Returns(t, [A EXCEPT !.pages[A.p].flags = leafPageFlag,
                                       !.buckets = (name :> [rootPageID |-> A.p,
                                                             sequence |-> 0]) @@ @],
                          fails, call, "nil")
               /\ view' = viewCreate(view, name)

\* RWTransaction.CreateBucket
CreateBucket(t, name, fails) == createBucket(t, name, fails, FALSE)

\* a CreateBucketIfNotExists that returns the error of CreateBucket as it is
CreateBucketIfNotExistsStrict(t, name, fails) == createBucket(t, name, fails, FALSE)

\* RWTransaction.CreateBucketIfNotExists
CreateBucketIfNotExists(t, name, fails) == createBucket(t, name, fails, TRUE)

\* a DeleteBucket that returns nil and leaves the bucket in the catalog
DeleteBucketKept(t, name) ==
    /\ MayCall(t, NoOp)
    /\ Returns(t, startR(0), 0, Call("DeleteBucket", name, 0, 0),
               IF name \notin DOMAIN rwtx.buckets THEN "BucketNotFound" ELSE "nil")
    /\ UNCHANGED view

\* RWTransaction.DeleteBucket
DeleteBucket(t, name) ==
    /\ MayCall(t, NoOp)
    /\ IF name \notin DOMAIN rwtx.buckets
       THEN Returns(t, startR(0), 0, Call("DeleteBucket", name, 0, 0), "BucketNotFound")
            /\ UNCHANGED view
       ELSE /\ Returns(t, [startR(0) EXCEPT !.buckets = [b \in DOMAIN @ \ {name} |-> @[b]]],
                       0, Call("DeleteBucket", name, 0, 0), "nil")
            /\ view' = viewDrop(view, name)

\* a NextSequence that returns the next number and does not store it
NextSequenceNotStored(t, name) ==
    /\ MayCall(t, NoOp)
    /\ IF name \notin DOMAIN rwtx.buckets
       THEN Returns(t, startR(0), 0, Call("NextSequence", name, 0, 0), "BucketNotFound")
       ELSE Returns(t, startR(0), 0,
                    Call("NextSequence", name, 0, rwtx.buckets[name].sequence + 1), "nil")
    /\ UNCHANGED view

\* RWTransaction.NextSequence
NextSequence(t, name) ==
    /\ MayCall(t, NoOp)
    /\ IF name \notin DOMAIN rwtx.buckets
       THEN Returns(t, startR(0), 0, Call("NextSequence", name, 0, 0), "BucketNotFound")
            /\ UNCHANGED view
       ELSE /\ rwtx.buckets[name].sequence < MaxSeq
            /\ Returns(t, [startR(0) EXCEPT !.buckets[name].sequence = @ + 1],
                       0, Call("NextSequence", name, 0, rwtx.buckets[name].sequence + 1),
                       "nil")
            /\ view' = IF name \in DOMAIN view
                       THEN [view EXCEPT ![name].sequence = @ + 1] ELSE view

\* a Put that looks for the bucket and validates neither key nor value
PutUnchecked(t, name, key, value) ==
    /\ MayCall(t, NoOp)
    /\ IF name \notin DOMAIN rwtx.buckets
       THEN Returns(t, startR(0), 0, Call("Put", name, key, 0), "BucketNotFound")
            /\ UNCHANGED view
       ELSE LET f == mapped(file, mmapLen)
                g == cursorGet(f, rwtx.pages, rwtx.buckets[name].rootPageID, key)
                N == cursorNode(f, startR(0), g.stack)
            IN /\ Returns(t, [N.R EXCEPT !.heap[N.nid] = nodePut(@, key, key, value, 0)],
                          0, Call("Put", name, key, 0), "nil")
               /\ view' = viewPut(view, name, key, value)

\* RWTransaction.Put
Put(t, name, key, value) ==
    /\ MayCall(t, NoOp)
    /\ IF name \notin DOMAIN rwtx.buckets
       THEN Returns(t, startR(0), 0, Call("Put", name, key, 0), "BucketNotFound")
            /\ UNCHANGED view
       ELSE IF KeyLen(key) = 0
       THEN Returns(t, startR(0), 0, Call("Put", name, key, 0), "KeyRequired")
            /\ UNCHANGED view
       ELSE IF KeyLen(key) > MaxKeySize
       THEN Returns(t, startR(0), 0, Call("Put", name, key, 0), "KeyTooLarge")
            /\ UNCHANGED view
       ELSE IF valueTooLarge(value)
       THEN Returns(t, startR(0), 0, Call("Put", name, key, 0), "ValueTooLarge")
            /\ UNCHANGED view
       ELSE LET f == mapped(file, mmapLen)
                g == cursorGet(f, rwtx.pages, rwtx.buckets[name].rootPageID, key)
                N == cursorNode(f, startR(0), g.stack)
            IN IF g.panic THEN Panic
               ELSE IF N.R.panic THEN Panic
               ELSE /\ Returns(t, [N.R EXCEPT !.heap[N.nid] = nodePut(@, key, key, value, 0)],
                               0, Call("Put", name, key, 0), "nil")
                    /\ view' = viewPut(view, name, key, value)

\* RWTransaction.Delete
Delete(t, name, key) ==
    /\ MayCall(t, NoOp)
    /\ IF name \notin DOMAIN rwtx.buckets
       THEN Returns(t, startR(0), 0, Call("Delete", name, key, 0), "BucketNotFound")
            /\ UNCHANGED view
       ELSE LET f == mapped(file, mmapLen)
                g == cursorGet(f, rwtx.pages, rwtx.buckets[name].rootPageID, key)
                N == cursorNode(f, startR(0), g.stack)
            IN IF g.panic THEN Panic
               ELSE IF N.R.panic THEN Panic
               ELSE /\ Returns(t, [N.R EXCEPT !.heap[N.nid] = nodeDel(@, key)],
                               0, Call("Delete", name, key, 0), "nil")
                    /\ view' = viewDelete(view, name, key)

\* DB.rwtxEnd at the end of Commit or Rollback: the writer lock is released
RwtxEnd(t, op, err, fl, len, h) ==
    /\ rwlock' = 0
    /\ rwtx' = NoRwtx
    /\ pc' = [pc EXCEPT ![t] = "idle"]
    /\ mmaplock' = [mmaplock EXCEPT !.writer = 0]
    /\ freelist' = fl
    /\ mmapLen' = len
    /\ view' = <<>>
    /\ hist' = [h EXCEPT !.ret = [op |-> op, err |-> err], !.call = NoCall]
    /\ UNCHANGED <<opened, txs, metalock>>

\* RWTransaction.allocate(count) in the write transaction of t; the call and the
\* id of the page it returns are logged
RwtxAllocate(t, count, fails) ==
    LET op == [kind |-> "allocate", name |-> count]
        A == rwtxAllocate(startR(fails), count)
    IN /\ MayCall(t, op)
       /\ fails > 0 => hist.faults < MaxFaults
       /\ IF A.remapped /\ mmaplock.readers > 0 THEN Blocks(t, op)
          ELSE IF A.panic THEN Panic
          ELSE /\ Returns(t, A, fails, Call("allocate", count, 0, IF A.err THEN 0 ELSE A.p),
                          IF A.err THEN "mmap allocate error" ELSE "nil")
               /\ UNCHANGED view

\* RWTransaction.Rollback
Rollback(t) ==
    /\ rwtx.owner = t
    /\ pc[t] = "writing"
    /\ RwtxEnd(t, "Rollback", "nil", freelist, mmapLen, hist)
    /\ UNCHANGED <<file, committed>>

\* what reading a slice of an unmapped region does: the region is mapped again at
\* the same address and the bytes of the file are read, or the read is a fault
staleOutcomes(R) == IF R.stale THEN BOOLEAN ELSE {FALSE}

\* RWTransaction.Commit: buckets.write into the buffer of the allocated page
commitAllocated(t, op, fails, R2, A, h, segv) ==
    IF R2.panic THEN Panic
    ELSE IF A.panic THEN Panic
    ELSE IF A.remapped /\ mmaplock.readers > 0 THEN Blocks(t, op)
    ELSE IF A.stale /\ segv THEN Stopped([h EXCEPT !.crash = "fault"])
    ELSE IF A.err
    THEN /\ RwtxEnd(t, "Commit", "mmap allocate error", A.fl, A.mmapLen, h)
         /\ UNCHANGED <<file, committed>>
    ELSE /\ rwtx' = [NoRwtx EXCEPT
                       !.owner = t,
                       !.meta = A.meta,
                       !.buckets = A.buckets,
                       !.pages = [A.pages EXCEPT ![A.p] = bucketsWrite(A.buckets, @)],
                       !.bucketsPageID = A.p]
         /\ freelist' = A.fl
         /\ mmapLen' = A.mmapLen
         /\ mmaplock' = [mmaplock EXCEPT !.writer = 0]
         /\ pc' = [pc EXCEPT ![t] = "commitWrite"]
         /\ hist' = h
         /\ UNCHANGED <<file, opened, txs, rwlock, metalock, view, committed>>

\* RWTransaction.Commit: the page for the catalog is allocated
commitSpilled(t, op, fails, R2, A) ==
    \E segv \in staleOutcomes(A) :
        commitAllocated(t, op, fails, R2, A,
                        [hist EXCEPT !.faults = IF A.fails < fails THEN @ + 1 ELSE @,
                                     !.spillErr = R2.err, !.stale = A.stale],
                        segv)

\* RWTransaction.Commit: the nodes are spilled in the order so
commitRebalanced(t, op, fails, R2) ==
    commitSpilled(t, op, fails, R2,
                  rwtxAllocate([R2 EXCEPT !.err = FALSE],
                               (bucketsSize(R2.buckets) \div pageSize) + 1))

\* RWTransaction.Commit: the nodes are rebalanced in the order ro
commitStarted(t, op, fails, R1) ==
    IF R1.panic THEN Panic
    ELSE \E so \in spillOrders(R1) :
           commitRebalanced(t, op, fails, spillLoop(file, R1, so, 0, <<>>))

\* RWTransaction.Commit up to the first write: rebalance, spill (its error is
\* dropped), the buckets page is allocated and written into its buffer
Commit(t, fails) ==
    LET op == [kind |-> "Commit", name |-> 0]
        R0 == startR(fails)
    IN /\ MayCall(t, op)
       /\ fails > 0 => hist.faults < MaxFaults
       /\ \E ro \in rebalanceOrders(R0) :
            commitStarted(t, op, fails, rwtxRebalance(mapped(file, mmapLen), R0, ro))

\* a write that goes on to the meta page after the first dirty page
CommitWriteFirstPage(t, ok) ==
    /\ rwtx.owner = t
    /\ pc[t] = "commitWrite"
    /\ ok \/ hist.faults < MaxFaults
    /\ LET id == CHOOSE i \in DOMAIN rwtx.pages : \A j \in DOMAIN rwtx.pages : i <= j
           rest == [i \in DOMAIN rwtx.pages \ {id} |-> rwtx.pages[i]]
       IN /\ file' = fileWrite(file, rwtx.pages[id])
          /\ rwtx' = [rwtx EXCEPT !.pages = rest]
          /\ pc' = [pc EXCEPT ![t] = "commitMeta"]
          /\ UNCHANGED <<opened, mmapLen, freelist, txs, rwlock, metalock, mmaplock,
                         view, committed, hist>>

\* RWTransaction.write: the next dirty page in page id order goes to the file
CommitWritePage(t, ok) ==
    /\ rwtx.owner = t
    /\ pc[t] = "commitWrite"
    /\ ok \/ hist.faults < MaxFaults
    /\ LET id == CHOOSE i \in DOMAIN rwtx.pages : \A j \in DOMAIN rwtx.pages : i <= j
           rest == [i \in DOMAIN rwtx.pages \ {id} |-> rwtx.pages[i]]
       IN \E stops \in overflowOutcomes(rwtx.pages, rwtx.bucketsPageID) :
            IF stops THEN Panic
            ELSE IF ok
            THEN /\ file' = fileWrite(file, rwtx.pages[id])
                 /\ rwtx' = [rwtx EXCEPT !.pages = rest]
                 /\ pc' = [pc EXCEPT ![t] = IF DOMAIN rest = {} THEN "commitMeta"
                                            ELSE "commitWrite"]
                 /\ UNCHANGED <<opened, mmapLen, freelist, txs, rwlock, metalock, mmaplock,
                                view, committed, hist>>
            ELSE /\ RwtxEnd(t, "Commit", "write error", freelist, mmapLen,
                            [hist EXCEPT !.faults = @ + 1])
                 /\ UNCHANGED <<file, committed>>

\* RWTransaction.writeMeta and the return of Commit: the error of WriteAt is dropped
CommitWriteMeta(t, ok) ==
    /\ rwtx.owner = t
    /\ pc[t] = "commitMeta"
    /\ ok \/ hist.faults < MaxFaults
    /\ LET m == [rwtx.meta EXCEPT !.bucketsPageID = rwtx.bucketsPageID]
           f == IF ok THEN fileWrite(file, metaWrite(m)) ELSE file
       IN /\ file' = f
          /\ committed' = IF ok THEN view ELSE committed
          /\ RwtxEnd(t, "Commit", "nil", freelist, mmapLen,
                     [hist EXCEPT !.faults = IF ok THEN @ ELSE @ + 1,
                                  !.metaOk = ok,
                                  !.stable = IF ok THEN observe(mapped(f, mmapLen)) ELSE @,
                                  !.meta = IF ok THEN m ELSE @])

\* ---------------------------------------------------- specifications
\* threads of one process on one database, without faults: every thread may write,
\* the threads of Readers may also read
Next ==
    \/ \E t \in Readers : opened /\ TxBegin(t)
    \/ \E t \in Readers : TxClose(t)
    \/ \E t \in Threads : opened /\ RwtxBegin(t, MaxTxID)
    \/ \E t \in Threads, name \in BucketNames :
          Cardinality(DOMAIN rwtx.pages) < MaxDirtyPages /\ CreateBucket(t, name, 0)
    \/ \E t \in Threads, name \in BucketNames : DeleteBucket(t, name)
    \/ \E t \in Threads, name \in BucketNames, key \in Keys, value \in Vals :
          Put(t, name, key, value)
    \/ \E t \in Threads, name \in BucketNames, key \in Keys : Delete(t, name, key)
    \/ \E t \in Threads : Rollback(t)
    \/ \E t \in Threads : Commit(t, 0)
    \/ \E t \in Threads : CommitWritePage(t, TRUE)
    \/ \E t \in Threads : CommitWriteMeta(t, TRUE)

Spec == Init /\ [][Next]_vars

\* one thread writing large values while mmap and WriteAt may fail and the process
\* may be stopped and the database opened again
NextFault ==
    \/ opened /\ RwtxBegin(1, MaxTxID)
    \/ \E name \in FaultBuckets, fails \in 0..1 :
          name \notin DOMAIN rwtx.buckets /\ CreateBucket(1, name, fails)
    \/ \E value \in FaultVals : Put(1, 1, 1, value)
    \/ Rollback(1)
    \/ \E fails \in 0..MaxMmapFail : Commit(1, fails)
    \/ \E ok \in BOOLEAN : CommitWritePage(1, ok)
    \/ \E ok \in BOOLEAN : CommitWriteMeta(1, ok)
    \/ Crash
    \/ ~opened /\ Open

SpecFault == Init /\ [][NextFault]_vars

\* one thread filling and emptying one bucket, without faults: the B+tree
NextTree ==
    \/ opened /\ RwtxBegin(1, TreeMaxTxID)
    \/ TreeBucket \notin DOMAIN rwtx.buckets /\ CreateBucket(1, TreeBucket, 0)
    \/ \E kv \in TreePuts : Put(1, TreeBucket, kv[1], kv[2])
    \/ \E key \in TreeKeys : Delete(1, TreeBucket, key)
    \/ Commit(1, 0)
    \/ CommitWritePage(1, TRUE)
    \/ CommitWriteMeta(1, TRUE)

SpecTree == Init /\ [][NextTree]_vars

\* DB.Open on a new file, with the calls of the write transactions logged
InitCatalog ==
    /\ file = dbInit
    /\ opened = TRUE
    /\ mmapLen = mmapSize(0)
    /\ freelist = freelistRead(dbInit[dbMeta(dbInit).freelistPageID])
    /\ txs = [t \in Threads |-> NoTx]
    /\ rwtx = NoRwtx
    /\ rwlock = 0
    /\ metalock = 0
    /\ mmaplock = NoLock
    /\ pc = [t \in Threads |-> "idle"]
    /\ view = <<>>
    /\ committed = <<>>
    /\ hist = [ret |-> NoRet, faults |-> 0, crash |-> "", spillErr |-> FALSE, stale |-> FALSE,
               metaOk |-> FALSE, stable |-> observe(mapped(dbInit, mmapSize(0))),
               meta |-> dbMeta(dbInit), log |-> TRUE, call |-> NoCall]

\* the names a caller may pass for a bucket: valid, empty, longest, too long
AnyNames == CatalogNames \cup {0, MaxSizeName, TooLargeName}

\* the next name of FillNames that is not in the catalog of the write transaction
nextFillName(name) ==
    /\ name \notin DOMAIN rwtx.buckets
    /\ \A n \in FillNames : n < name => n \in DOMAIN rwtx.buckets

\* one thread creating the buckets of FillNames one after the other and deleting
\* them, and a reader, without faults: the catalog fills its page
NextFill ==
    \/ opened /\ TxBegin(2)
    \/ TxClose(2)
    \/ opened /\ RwtxBegin(1, FillMaxTxID)
    \/ \E name \in FillNames : nextFillName(name) /\ CreateBucket(1, name, 0)
    \/ Commit(1, 0)
    \/ CommitWritePage(1, TRUE)
    \/ CommitWriteMeta(1, TRUE)
    \/ ~opened /\ Open

SpecFill == Init /\ [][NextFill]_vars

\* one thread creating and numbering buckets under any name, without faults, its
\* calls logged: the catalog
NextCatalog ==
    \/ opened /\ RwtxBegin(1, CatMaxTxID)
    \/ \E name \in AnyNames :
          Cardinality(DOMAIN rwtx.pages) < CatMaxDirtyPages /\ CreateBucket(1, name, 0)
    \/ \E name \in AnyNames :
          Cardinality(DOMAIN rwtx.pages) < CatMaxDirtyPages
          /\ CreateBucketIfNotExists(1, name, 0)
    \/ \E name \in AnyNames : NextSequence(1, name)
    \/ Commit(1, 0)
    \/ CommitWritePage(1, TRUE)
    \/ CommitWriteMeta(1, TRUE)

SpecCatalog == InitCatalog /\ [][NextCatalog]_vars

\* the buckets, keys and values a caller may pass: bucket 2 is never created, key 0
\* is the empty key, key 2 is never put
InputNames == {1, 2}
InputKeys == {0, 1, MaxSizeKey, TooLargeKey}
InputVals == {1, TooLargeVal}

\* one thread writing one bucket with any input, without faults, the calls logged
NextInput ==
    \/ opened /\ RwtxBegin(1, InputMaxTxID)
    \/ 1 \notin DOMAIN rwtx.buckets /\ CreateBucket(1, 1, 0)
    \/ \E name \in InputNames, key \in InputKeys, value \in InputVals :
          Put(1, name, key, value)
    \/ \E name \in InputNames, key \in {1, 2} : Delete(1, name, key)
    \/ Commit(1, 0)
    \/ CommitWritePage(1, TRUE)
    \/ CommitWriteMeta(1, TRUE)

SpecInput == InitCatalog /\ [][NextInput]_vars

\* a writer and a reader of one bucket while the database is closed and opened
\* again between the transactions, without faults, the calls logged
NextLifecycle ==
    \/ TxBegin(2)
    \/ TxClose(2)
    \/ RwtxBegin(1, InputMaxTxID)
    \/ 1 \notin DOMAIN rwtx.buckets /\ CreateBucket(1, 1, 0)
    \/ Put(1, 1, 1, 1)
    \/ Commit(1, 0)
    \/ CommitWritePage(1, TRUE)
    \/ CommitWriteMeta(1, TRUE)
    \/ rwtx.owner = 0 /\ (\A t \in Threads : pc[t] = "idle") /\ opened /\ Close
    \/ Open

SpecLifecycle == InitCatalog /\ [][NextLifecycle]_vars

\* DB.Open on a new file, with the threads of LockThreads
InitLocks ==
    /\ file = dbInit
    /\ opened = TRUE
    /\ mmapLen = mmapSize(0)
    /\ freelist = freelistRead(dbInit[dbMeta(dbInit).freelistPageID])
    /\ txs = [t \in LockThreads |-> NoTx]
    /\ rwtx = NoRwtx
    /\ rwlock = 0
    /\ metalock = 0
    /\ mmaplock = NoLock
    /\ pc = [t \in LockThreads |-> "idle"]
    /\ view = <<>>
    /\ committed = <<>>
    /\ hist = [ret |-> NoRet, faults |-> 0, crash |-> "", spillErr |-> FALSE, stale |-> FALSE,
               metaOk |-> FALSE, stable |-> observe(mapped(dbInit, mmapSize(0))),
               meta |-> dbMeta(dbInit), log |-> FALSE, call |-> NoCall]

\* the positions of a thread
LockPcs == {"idle", "reading", "rlockWait", "rwlockWait", "writing", "mmapWait",
            "commitWrite", "commitMeta"}

\* two writers and two readers on the three locks, without faults: a value that
\* does not fit the mapping makes Commit remap. A writer that waits for the
\* writer lock gets the transaction id after the one of the writer it waits for
NextLocks ==
    \/ \E t \in LockReaders : TxBegin(t)
    \/ \E t \in LockReaders : TxClose(t)
    \/ \E t \in LockWriters :
         pc[t] = "idle" /\ dbMeta(file).txID < LockMaxTxID /\ RwtxBegin(t, LockMaxTxID)
    \/ \E t \in LockWriters : pc[t] = "rwlockWait" /\ RwtxBegin(t, LockMaxTxID + 1)
    \/ \E t \in LockWriters : 1 \notin DOMAIN rwtx.buckets /\ CreateBucket(t, 1, 0)
    \/ \E t \in LockWriters : Put(t, 1, 1, BigVal)
    \/ \E t \in LockWriters : Rollback(t)
    \/ \E t \in LockWriters : Commit(t, 0)
    \/ \E t \in LockWriters : CommitWritePage(t, TRUE)
    \/ \E t \in LockWriters : CommitWriteMeta(t, TRUE)

\* thread t can go on: the lock it needs next is free. Close (DB.txEnd) needs the
\* meta lock, RLock in DB.txBegin a mmap lock that no DB.mmap holds or waits for,
\* rwlock.Lock() in DB.rwtxBegin a free writer lock, mmaplock.Lock() in DB.mmap a
\* mmap lock without readers; Commit, Rollback and the writes need no lock
lockReady(t) ==
    CASE pc[t] = "reading" -> metalock = 0
      [] pc[t] = "rlockWait" -> mmaplock.writer = 0
      [] pc[t] = "rwlockWait" -> rwlock = 0
      [] pc[t] = "mmapWait" -> mmaplock.readers = 0
      [] pc[t] \in {"writing", "commitWrite", "commitMeta"} -> TRUE
      [] OTHER -> FALSE

\* the step that thread t has to take sooner or later: the call it is in goes
\* on; the owner of a read transaction closes it, the owner of a write
\* transaction commits it or rolls it back
lockStep(t) ==
    /\ lockReady(t)
    /\ \E p \in LockPcs \ {pc[t]} : pc' = [pc EXCEPT ![t] = p]

\* the scheduling: every goroutine runs, and sync.Mutex and sync.RWMutex hand a
\* lock that is released again and again to every goroutine that waits for it
FairLocks == \A t \in LockThreads : SF_pc(lockStep(t))

SpecLocks == InitLocks /\ [][NextLocks]_vars /\ FairLocks

\* the keys of the branch workload
BranchKeys == 1..BranchMaxKey

\* the first transaction of the branch workload puts the keys from 2 on in
\* ascending order, the later ones put and delete any key
branchMayPut(key) ==
    \/ rwtx.meta.txID > 2
    \/ /\ TreeBucket \in DOMAIN view
       /\ key \notin DOMAIN view[TreeBucket].kv
       /\ key = 2 \/ (key - 1) \in DOMAIN view[TreeBucket].kv

\* one writer on one bucket whose first commit splits the root, so that the
\* later transactions put below the smallest key, delete first keys, and make
\* leaves borrow, merge and split under a branch page
NextBranch ==
    \/ opened /\ RwtxBegin(1, BranchMaxTxID)
    \/ TreeBucket \notin DOMAIN rwtx.buckets /\ CreateBucket(1, TreeBucket, 0)
    \/ \E key \in BranchKeys : branchMayPut(key) /\ Put(1, TreeBucket, key, 1)
    \/ \E key \in BranchKeys : rwtx.meta.txID > 2 /\ Delete(1, TreeBucket, key)
    \/ Commit(1, 0)
    \/ CommitWritePage(1, TRUE)
    \/ CommitWriteMeta(1, TRUE)

SpecBranch == Init /\ [][NextBranch]_vars

\* the page ids of the set S in descending order
RECURSIVE descending(_)
descending(S) ==
    IF S = {} THEN <<>>
    ELSE LET m == CHOOSE x \in S : \A y \in S : y <= x
         IN <<m>> \o descending(S \ {m})

\* the available page ids of TestFreelistAllocate
testPageIDs == <<18, 13, 12, 9, 7, 6, 5, 4, 3>>

\* the lists of available page ids that freelist.allocate is applied to: the
\* list of the test and every descending list of page ids up to FreeMaxID
AvailableLists == {testPageIDs} \cup {descending(S) : S \in SUBSET (1..FreeMaxID)}

\* a database whose freelist holds one of the lists
InitFreelist ==
    /\ file = dbInit
    /\ opened = TRUE
    /\ mmapLen = mmapSize(0)
    /\ \E ids \in AvailableLists : freelist = [ids |-> ids, pending |-> <<>>]
    /\ txs = [t \in Threads |-> NoTx]
    /\ rwtx = NoRwtx
    /\ rwlock = 0
    /\ metalock = 0
    /\ mmaplock = NoLock
    /\ pc = [t \in Threads |-> "idle"]
    /\ view = <<>>
    /\ committed = <<>>
    /\ hist = [ret |-> NoRet, faults |-> 0, crash |-> "", spillErr |-> FALSE, stale |-> FALSE,
               metaOk |-> FALSE, stable |-> observe(mapped(dbInit, mmapSize(0))),
               meta |-> dbMeta(dbInit), log |-> TRUE, call |-> NoCall]

\* freelist.allocate(n) on the freelist of the database; the call and the id it
\* returns are logged
FreelistAllocate(n) ==
    LET r == freelistAllocate(freelist.ids, n)
    IN /\ opened
       /\ IF r.panic THEN Panic
          ELSE /\ freelist' = [freelist EXCEPT !.ids = r.ids]
               /\ hist' = [hist EXCEPT !.call = Call("allocate", n, 0, r.id)]
               /\ UNCHANGED <<file, opened, mmapLen, txs, rwtx, rwlock, metalock,
                              mmaplock, pc, view, committed>>

\* the pages freelist.free is given: a page with its overflow
FreePages == {newPage(id, count) : id \in 0..FreeMaxPage, count \in 1..(FreeMaxOverflow + 1)}

\* the number of page ids in the pending lists
pendingLen(fl) ==
    LET dom == DOMAIN fl.pending
        RECURSIVE sum(_)
        sum(S) == IF S = {} THEN 0
                  ELSE LET x == CHOOSE y \in S : TRUE
                       IN Len(fl.pending[x]) + sum(S \ {x})
    IN sum(dom)

\* freelist.free(txid, p) on the freelist of the database: freeing page 0 or 1
\* is fatal
FreelistFree(txid, p) ==
    /\ opened
    /\ pendingLen(freelist) + p.overflow + 1 <= FreeMaxPending
    /\ IF p.id <= 1 THEN Panic
       ELSE /\ freelist' = freelistFree(freelist, txid, p)
            /\ hist' = [hist EXCEPT !.call = Call("free", txid, p.id, p.overflow)]
            /\ UNCHANGED <<file, opened, mmapLen, txs, rwtx, rwlock, metalock,
                           mmaplock, pc, view, committed>>

NextFreelist ==
    \/ \E n \in 0..FreeMaxN : FreelistAllocate(n)
    \/ \E txid \in 2..FreeMaxTxID, p \in FreePages : FreelistFree(txid, p)

SpecFreelist == InitFreelist /\ [][NextFreelist]_vars

\* the numbers of pages RWTransaction.allocate is asked for: AllocBigCount pages
\* take the high water mark of a new database to the end of the first mapping
AllocCounts == {1, 2, AllocBigCount}

\* one thread allocating pages in its write transactions, while mmap may fail
NextAlloc ==
    \/ opened /\ RwtxBegin(1, AllocMaxTxID)
    \/ \E count \in AllocCounts, fails \in 0..1 :
          /\ Cardinality(DOMAIN rwtx.pages) < AllocMaxDirtyPages
          /\ RwtxAllocate(1, count, fails)
    \/ Rollback(1)
    \/ Commit(1, 0)
    \/ CommitWritePage(1, TRUE)
    \/ CommitWriteMeta(1, TRUE)

SpecAlloc == InitCatalog /\ [][NextAlloc]_vars

\* the values of the sizes that matter for the number of pages of a leaf: a small
\* one, one that fills the page to its last byte, one of many pages
SizeVals == {1, ExactVal, MidVal}

\* one thread putting values of these sizes into one bucket, without faults
NextSize ==
    \/ opened /\ RwtxBegin(1, SizeMaxTxID)
    \/ TreeBucket \notin DOMAIN rwtx.buckets /\ CreateBucket(1, TreeBucket, 0)
    \/ \E key \in 1..SizeMaxKey, value \in SizeVals : Put(1, TreeBucket, key, value)
    \/ \E key \in 1..SizeMaxKey : Delete(1, TreeBucket, key)
    \/ Commit(1, 0)
    \/ CommitWritePage(1, TRUE)
    \/ CommitWriteMeta(1, TRUE)

SpecSize == InitCatalog /\ [][NextSize]_vars

\* the callers put the keys in ascending order, each once
derefMayPut(key) ==
    /\ TreeBucket \in DOMAIN view
    /\ key \notin DOMAIN view[TreeBucket].kv
    /\ key = 1 \/ (key - 1) \in DOMAIN view[TreeBucket].kv

\* one thread filling one bucket over two transactions with small values and with
\* values that take the file beyond the mapping, where mmap may fail
NextDeref ==
    \/ opened /\ RwtxBegin(1, DerefMaxTxID)
    \/ TreeBucket \notin DOMAIN rwtx.buckets /\ CreateBucket(1, TreeBucket, 0)
    \/ \E key \in 1..DerefMaxKey, value \in {1, MidVal} :
          derefMayPut(key) /\ Put(1, TreeBucket, key, value)
    \/ \E fails \in 0..1 : Commit(1, fails)
    \/ CommitWritePage(1, TRUE)
    \/ CommitWriteMeta(1, TRUE)

SpecDeref == InitCatalog /\ [][NextDeref]_vars

\* a writer of small values and of values of BigValSize bytes, while the database
\* is closed and opened again between the transactions, without faults
NextReopen ==
    \/ RwtxBegin(1, ReopenMaxTxID)
    \/ 1 \notin DOMAIN rwtx.buckets /\ CreateBucket(1, 1, 0)
    \/ \E key \in 1..2, value \in {1, BigVal} : Put(1, 1, key, value)
    \/ Rollback(1)
    \/ Commit(1, 0)
    \/ CommitWritePage(1, TRUE)
    \/ CommitWriteMeta(1, TRUE)
    \/ rwtx.owner = 0 /\ (\A t \in Threads : pc[t] = "idle") /\ opened /\ Close
    \/ Open

SpecReopen == InitCatalog /\ [][NextReopen]_vars

\* the page of the root node that is split
SplitRoot == 4

\* a leaf with the keys 1 .. Len(vs) and the values vs, as Puts into the empty
\* root of a new bucket leave it
splitLeaf(vs) ==
    [NilNode EXCEPT !.isLeaf = TRUE, !.pageID = SplitRoot,
                    !.children = [i \in 1..Len(vs) |->
                                    [key |-> i, value |-> vs[i], pageID |-> 0]]]

\* a branch with k children whose first j keys have one byte and whose other keys
\* have WideKeySize bytes
splitBranch(k, j) ==
    [NilNode EXCEPT !.pageID = SplitRoot, !.key = IF j = 0 THEN WideKey(1) ELSE 1,
                    !.children = [i \in 1..k |->
                                    [key |-> IF i <= j THEN i ELSE WideKey(i), value |-> 0,
                                     pageID |-> SplitRoot + i]]]

\* the nodes node.split is applied to: leaves of up to SplitMaxChildren keys with
\* values of 0, ValSize and ExactValSize bytes, and branches of two children or more
SplitNodes ==
    {splitLeaf(vs) : vs \in UNION {[1..k -> {0, 1, ExactVal}] : k \in 0..SplitMaxChildren}}
    \cup {splitBranch(k, j) : k \in 2..SplitMaxChildren, j \in 0..2}

\* a write transaction whose node cache holds one of the nodes as a root
InitSplit ==
    /\ file = dbInit
    /\ opened = TRUE
    /\ mmapLen = mmapSize(0)
    /\ freelist = freelistRead(dbInit[dbMeta(dbInit).freelistPageID])
    /\ txs = [t \in Threads |-> NoTx]
    /\ \E n \in SplitNodes :
         rwtx = [NoRwtx EXCEPT !.owner = 1,
                               !.meta = [dbMeta(dbInit) EXCEPT !.txID = @ + 1,
                                                               !.pageID = SplitRoot + 1],
                               !.buckets = (TreeBucket :> [rootPageID |-> SplitRoot,
                                                           sequence |-> 0]),
                               !.pages = (SplitRoot :> [newPage(SplitRoot, 1)
                                                          EXCEPT !.flags = leafPageFlag]),
                               !.heap = (SplitRoot :> n),
                               !.cache = {SplitRoot}]
    /\ rwlock = 1
    /\ metalock = 0
    /\ mmaplock = NoLock
    /\ pc = [t \in Threads |-> IF t = 1 THEN "writing" ELSE "idle"]
    /\ view = <<>>
    /\ committed = <<>>
    /\ hist = [ret |-> NoRet, faults |-> 0, crash |-> "", spillErr |-> FALSE, stale |-> FALSE,
               metaOk |-> FALSE, stable |-> observe(mapped(dbInit, mmapSize(0))),
               meta |-> dbMeta(dbInit), log |-> TRUE, call |-> NoCall]

\* node.split on the cached node nid: the node keeps the children of the first
\* node returned, the other nodes are new; the call and the nodes are logged
NodeSplit(nid) ==
    LET n == rwtx.heap[nid]
        parts == nodeSplit(n)
        ids == [j \in 1..Len(parts) |-> IF j = 1 THEN nid ELSE 0 - (j - 1)]
    IN /\ rwtx.owner = 1
       /\ pc[1] = "writing"
       /\ hist.call = NoCall
       /\ nid \in rwtx.cache
       /\ rwtx' = [rwtx EXCEPT !.heap =
                     [id \in {ids[j] : j \in 1..Len(parts)} |->
                        IF id = nid THEN [n EXCEPT !.children = parts[1]]
                        ELSE [NilNode EXCEPT !.isLeaf = n.isLeaf,
                                             !.children = parts[1 - id]]]]
       /\ hist' = [hist EXCEPT !.call = Call("split", nid, 0, ids)]
       /\ UNCHANGED <<file, opened, mmapLen, freelist, txs, rwlock, metalock, mmaplock,
                      pc, view, committed>>

NextSplit == NodeSplit(SplitRoot)

SpecSplit == InitSplit /\ [][NextSplit]_vars


\* ------------------------------------------------------------ properties
\* the root page of a bucket in the catalog that the meta m points to
rootPageOf(f, m, name) ==
    LET bucketMap == bucketsRead(dbPage(f, m.bucketsPageID))
    IN IF name \in DOMAIN bucketMap THEN dbPage(f, bucketMap[name].rootPageID) ELSE NilPage

\* the meta that was active before the last commit
olderMeta(f) == IF f[0].ptr.txID > f[1].ptr.txID THEN f[1].ptr ELSE f[0].ptr

\* C1: a read transaction begun in any state gets from Get(b, k) the value of the
\* last committed Put(b, k, v) that no committed Delete(b, k) followed, nil when
\* there is none, and BucketNotFound when the bucket is not committed.
C1_GetReturnsCommitted ==
    LET f == mapped(file, mmapLen)
        tx == txInit(f)
    IN opened =>
       /\ ~tx.panic
       /\ \A name \in BucketNames, key \in TreeKeys :
            LET g == txGet(f, <<>>, tx.buckets, name, key)
            IN IF name \in DOMAIN committed
               THEN /\ ~g.err
                    /\ ~g.panic
                    /\ g.value = IF key \in DOMAIN committed[name].kv
                                 THEN committed[name].kv[key] ELSE 0
               ELSE g.err

\* C1 witness: the last commit merged the leaves of a split tree into one root
\* leaf, which holds an overwritten value and lacks a deleted key
C1_Witness ==
    /\ opened
    /\ TreeBucket \in DOMAIN committed
    /\ dbMeta(file).txID = 3
    /\ hasFlag(rootPageOf(file, olderMeta(file), TreeBucket), branchPageFlag)
    /\ hasFlag(rootPageOf(file, dbMeta(file), TreeBucket), leafPageFlag)
    /\ 1 \in DOMAIN committed[TreeBucket].kv
    /\ committed[TreeBucket].kv[1] = 2
    /\ Cardinality(DOMAIN committed[TreeBucket].kv) = 2

\* C2: ForEach on a committed bucket visits exactly the committed pairs of the
\* bucket, each once, in strictly ascending key order, and stops.
C2_ForEachAscending ==
    LET f == mapped(file, mmapLen)
        tx == txInit(f)
    IN opened =>
       /\ ~tx.panic
       /\ DOMAIN tx.buckets = DOMAIN committed
       /\ \A name \in DOMAIN committed :
            LET r == cursorForEach(f, <<>>, tx.buckets[name].rootPageID)
                kv == committed[name].kv
            IN /\ ~r.panic
               /\ \A i \in 1..(Len(r.pairs) - 1) : r.pairs[i][1] < r.pairs[i + 1][1]
               /\ {r.pairs[i][1] : i \in 1..Len(r.pairs)} = DOMAIN kv
               /\ \A i \in 1..Len(r.pairs) : r.pairs[i][2] = kv[r.pairs[i][1]]

\* C2 witness: the committed tree has a branch root over several leaves and
\* ForEach has all the keys to visit
C2_Witness ==
    /\ opened
    /\ TreeBucket \in DOMAIN committed
    /\ hasFlag(rootPageOf(file, dbMeta(file), TreeBucket), branchPageFlag)
    /\ rootPageOf(file, dbMeta(file), TreeBucket).count >= 2
    /\ DOMAIN committed[TreeBucket].kv = TreeKeys

\* the pairs a ForEach visited, as a function from key to value
pairsKv(pairs) ==
    [k \in {pairs[i][1] : i \in 1..Len(pairs)} |->
        pairs[CHOOSE i \in 1..Len(pairs) : pairs[i][1] = k][2]]

\* what a transaction read, as buckets of sequence and key/value pairs
asView(rs) ==
    [name \in DOMAIN rs |->
        [sequence |-> rs[name].sequence, kv |-> pairsKv(rs[name].items.pairs)]]

\* the page ids p.id .. p.id+overflow of a page
span(p) == [lo |-> p.id, hi |-> p.id + p.overflow]

overlap(a, b) == a.lo <= b.hi /\ b.lo <= a.hi

\* the pages of the tree under page id
RECURSIVE treeSpans(_, _)
treeSpans(f, id) ==
    IF id \notin DOMAIN f THEN {}
    ELSE {span(f[id])} \cup
         IF hasFlag(f[id], branchPageFlag)
         THEN UNION {treeSpans(f, pageElement(f[id], i).pageID) :
                        i \in 0..(f[id].count - 1)}
         ELSE {}

\* the pages reachable from the meta m with the catalog bucketMap
liveSpans(f, m, bucketMap) ==
    {[lo |-> m.txID % 2, hi |-> m.txID % 2]}
        \cup treeSpans(f, m.freelistPageID)
        \cup treeSpans(f, m.bucketsPageID)
        \cup UNION {treeSpans(f, bucketMap[b].rootPageID) : b \in DOMAIN bucketMap}

\* the pages reachable from the snapshots of the open read transactions
readerSpans(f) ==
    UNION {liveSpans(f, txs[t].meta, txs[t].buckets) :
              t \in {r \in Threads : pc[r] = "reading"}}

\* the positions of a thread inside its write transaction
WriterPcs == {"writing", "mmapWait", "commitWrite", "commitMeta"}

\* C3: whatever write transactions do after a read transaction began, the read
\* transaction's Buckets, ForEach and Get give what they gave when it began,
\* which is the state committed at that moment.
C3_SnapshotIsolation ==
    \A t \in Threads :
        pc[t] = "reading" =>
            LET f == mapped(file, mmapLen)
                now == readState(f, txBuckets(t))
                began == txs[t].began
            IN /\ now = txs[t].snap
               /\ \A name \in DOMAIN now : ~now[name].items.panic
               /\ asView(now) = began
               /\ \A name \in BucketNames, key \in Keys :
                    LET g == txGet(f, <<>>, txBuckets(t), name, key)
                    IN IF name \in DOMAIN began
                       THEN /\ ~g.err
                            /\ ~g.panic
                            /\ g.value = IF key \in DOMAIN began[name].kv
                                         THEN began[name].kv[key] ELSE 0
                       ELSE g.err

\* C3 witness: a read transaction that began on a bucket with a key is still
\* open after a write transaction has committed the bucket without the key
C3_Witness ==
    \E t \in Threads :
        /\ pc[t] = "reading"
        /\ \E name \in DOMAIN txs[t].began \cap DOMAIN committed :
              /\ txs[t].began[name].kv # <<>>
              /\ committed[name].kv = <<>>
        /\ txs[t].meta.txID < dbMeta(file).txID

\* C4: when the process stopped inside Commit before the meta write and the
\* database is open again, the active meta is the one last committed and a read
\* transaction reads exactly the state last committed.
C4_CrashBeforeMetaWrite ==
    (opened /\ hist.crash \in {"commitWrite", "commitMeta"}) =>
        /\ dbMeta(file) = hist.meta
        /\ observe(mapped(file, mmapLen)) = hist.stable

\* C5: at most one thread is inside a write transaction, and it is the holder
\* of the writer lock.
C5_SingleWriter ==
    /\ Cardinality({t \in Threads : pc[t] \in WriterPcs}) <= 1
    /\ \A t \in Threads : pc[t] \in WriterPcs => rwlock = t /\ rwtx.owner = t

\* C5 witness: a thread is inside its write transaction while another thread
\* has called begin_write and waits for the writer lock
C5_Witness ==
    \E t, u \in Threads : pc[t] \in WriterPcs /\ pc[u] = "rwlockWait"

\* C6: after Rollback has returned, the active meta is the one last committed
\* and a read transaction reads exactly the state last committed.
C6_RollbackChangesNothing ==
    (opened /\ hist.crash = "" /\ hist.ret.op = "Rollback") =>
        /\ dbMeta(file) = hist.meta
        /\ observe(mapped(file, mmapLen)) = hist.stable

\* C7: after Commit has returned an error, the writer lock is free, the active
\* meta is the one last committed and a read transaction reads exactly the state
\* last committed.
C7_CommitErrorKeepsVersion ==
    (opened /\ hist.crash = "" /\ hist.ret.op = "Commit" /\ hist.ret.err # "nil") =>
        /\ rwlock = 0
        /\ dbMeta(file) = hist.meta
        /\ observe(mapped(file, mmapLen)) = hist.stable

\* C8: Commit returns nil only if no allocation failed while the nodes were
\* spilled and the meta page was written.
C8_CommitErrorsReturned ==
    hist.ret = [op |-> "Commit", err |-> "nil"] => (hist.metaOk /\ ~hist.spillErr)

\* C9: no page that a write transaction has allocated, and that its Commit
\* will write, overlaps a page reachable from the active meta or from the
\* snapshot of an open read transaction; no available page of the freelist is
\* reachable from the snapshot of an open read transaction.
C9_CopyOnWrite ==
    opened =>
        LET f == mapped(file, mmapLen)
            tx == txInit(f)
            live == liveSpans(f, tx.meta, tx.buckets) \cup readerSpans(f)
        IN /\ ~tx.panic
           /\ \A id \in DOMAIN rwtx.pages :
                \A s \in live : ~overlap(span(rwtx.pages[id]), s)
           /\ \A i \in 1..Len(freelist.ids) :
                \A s \in readerSpans(f) :
                    ~overlap([lo |-> freelist.ids[i], hi |-> freelist.ids[i]], s)

\* C9 witness: a read transaction is open on a bucket with a key while a Commit
\* is writing the pages of a new leaf and of a new catalog
C9_Witness ==
    \E t \in Threads :
        /\ pc[t] = "reading"
        /\ \E name \in DOMAIN txs[t].began : txs[t].began[name].kv # <<>>
        /\ rwtx.owner # 0
        /\ pc[rwtx.owner] = "commitWrite"
        /\ Cardinality(DOMAIN rwtx.pages) >= 2

\* the page ids of all the pending lists of the freelist
pendingIds(fl) == UNION {Range(fl.pending[x]) : x \in DOMAIN fl.pending}

\* C10: after a committed transaction every page id is in at most one of the
\* pages reachable from the active meta, the available list and the pending
\* lists of the freelist.
C10_PageInOneSet ==
    (opened /\ hist.crash = "" /\ hist.metaOk
            /\ hist.ret = [op |-> "Commit", err |-> "nil"]) =>
        LET f == mapped(file, mmapLen)
            tx == txInit(f)
            live == liveSpans(f, tx.meta, tx.buckets)
            isLive(id) == \E s \in live : s.lo <= id /\ id <= s.hi
        IN /\ ~tx.panic
           /\ \A id \in Range(freelist.ids) : ~isLive(id)
           /\ \A id \in pendingIds(freelist) : ~isLive(id)
           /\ Range(freelist.ids) \cap pendingIds(freelist) = {}
           /\ \A x, y \in DOMAIN freelist.pending :
                x # y => Range(freelist.pending[x]) \cap Range(freelist.pending[y]) = {}

\* a sequence of page ids in descending order
sortedDescending(ids) == \A i \in 1..(Len(ids) - 1) : ids[i] > ids[i + 1]

\* C11: when a write transaction begins, every page id pending for a transaction
\* id up to the smallest reader transaction id minus one has moved to the
\* available ids, the other pending lists are untouched and the available ids are
\* sorted descending.
C11_ReleaseAtBegin ==
    [][(rwtx.owner = 0 /\ rwtx'.owner # 0 /\ minReaderTxID > 0) =>
          LET txid == minReaderTxID - 1
              old == DOMAIN freelist.pending
          IN /\ \A x \in DOMAIN freelist'.pending : x > txid
             /\ \A x \in old : x > txid =>
                   x \in DOMAIN freelist'.pending
                   /\ freelist'.pending[x] = freelist.pending[x]
             /\ Range(freelist'.ids) =
                   Range(freelist.ids)
                   \cup UNION {Range(freelist.pending[x]) : x \in {y \in old : y <= txid}}
             /\ sortedDescending(freelist'.ids)]_vars

\* the names of a list of Transaction.Buckets ascend
ascendingNames(o) == \A i \in 1..(Len(o) - 1) : o[i] < o[i + 1]

\* C12: Buckets() of a new transaction returns the committed buckets in ascending
\* order of their names, in whatever order they were created.
C12_BucketsAscending ==
    LET tx == txInit(mapped(file, mmapLen))
    IN (opened /\ ~tx.panic) =>
          \A o \in txBucketsLists(tx.buckets) : ascendingNames(o)

\* C13: after every committed transaction a new transaction begins and its
\* Buckets() returns every committed bucket once and no deleted bucket.
C13_BucketsComplete ==
    LET tx == txInit(mapped(file, mmapLen))
    IN opened =>
          /\ ~tx.panic
          /\ \A name \in DOMAIN committed : name \in DOMAIN tx.buckets
          /\ \A name \in DOMAIN tx.buckets : name \in DOMAIN committed

\* C14: CreateBucket fails with BucketExists when the name is in the catalog, with
\* BucketNameRequired when the name is empty and with BucketNameTooLarge when it is
\* longer than 255 bytes, a name of 255 bytes being created; a failing call leaves
\* the catalog as it is and allocates no page.
C14_CreateBucketErrors ==
    [][\A name \in AnyNames :
          CreateBucket(1, name, 0) =>
             LET err == hist'.ret.err
             IN /\ err = IF name \in DOMAIN rwtx.buckets THEN "BucketExists"
                         ELSE IF NameLen(name) = 0 THEN "BucketNameRequired"
                         ELSE IF NameLen(name) > 255 THEN "BucketNameTooLarge"
                         ELSE "nil"
                /\ err # "nil" =>
                      /\ rwtx'.buckets = rwtx.buckets
                      /\ rwtx'.pages = rwtx.pages
                      /\ rwtx'.meta = rwtx.meta
                      /\ freelist' = freelist
                      /\ file' = file
                /\ err = "nil" =>
                      /\ DOMAIN rwtx'.buckets = DOMAIN rwtx.buckets \cup {name}
                      /\ rwtx'.meta.pageID = rwtx.meta.pageID + 1]_vars

\* C14 witness: a name of 255 bytes was created and a name of 256 bytes has just
\* been refused.
C14_Witness ==
    /\ hist.call = Call("CreateBucket", TooLargeName, 0, 0)
    /\ hist.ret.err = "BucketNameTooLarge"
    /\ NameLen(TooLargeName) = 256
    /\ MaxSizeName \in DOMAIN rwtx.buckets
    /\ NameLen(MaxSizeName) = 255

\* C15: CreateBucketIfNotExists with a valid name returns no error, the bucket is
\* in the catalog afterwards, and a call for a bucket that is there already leaves
\* its root page id, its sequence and the allocation of pages unchanged.
C15_CreateIfNotExistsIdempotent ==
    [][\A name \in AnyNames :
          (NameLen(name) \in 1..255 /\ CreateBucketIfNotExists(1, name, 0)) =>
             /\ hist'.ret.err = "nil"
             /\ name \in DOMAIN rwtx'.buckets
             /\ name \in DOMAIN rwtx.buckets =>
                   /\ rwtx'.buckets = rwtx.buckets
                   /\ rwtx'.pages = rwtx.pages
                   /\ rwtx'.meta = rwtx.meta
                   /\ freelist' = freelist
                   /\ mmapLen' = mmapLen]_vars

\* C15 witness: CreateBucketIfNotExists has just returned nil for a bucket that was
\* there before the call: its sequence is not that of a new bucket.
C15_Witness ==
    /\ hist.call = Call("CreateBucketIfNotExists", 1, 0, 0)
    /\ hist.ret.err = "nil"
    /\ 1 \in DOMAIN rwtx.buckets
    /\ rwtx.buckets[1].sequence = 1

\* C17: NextSequence returns the stored sequence of the bucket plus one and stores
\* it, so that the n-th call since the bucket was created returns n; the other
\* buckets keep their sequences; the sequence is in the catalog a new transaction
\* reads after Commit; for a missing bucket it returns 0 with BucketNotFound.
C17_NextSequence ==
    /\ [][\A name \in AnyNames :
             NextSequence(1, name) =>
                IF name \in DOMAIN rwtx.buckets
                THEN /\ hist'.ret.err = "nil"
                     /\ hist'.call.out = rwtx.buckets[name].sequence + 1
                     /\ rwtx'.buckets =
                           [rwtx.buckets EXCEPT ![name].sequence = hist'.call.out]
                ELSE /\ hist'.ret.err = "BucketNotFound"
                     /\ hist'.call.out = 0
                     /\ rwtx'.buckets = rwtx.buckets]_vars
    /\ [](pc[1] = "writing" =>
             \A name \in DOMAIN rwtx.buckets :
                name \in DOMAIN view /\ rwtx.buckets[name].sequence = view[name].sequence)
    /\ [](opened =>
             LET tx == txInit(mapped(file, mmapLen))
             IN /\ ~tx.panic
                /\ \A name \in DOMAIN committed :
                      /\ name \in DOMAIN tx.buckets
                      /\ tx.buckets[name].sequence = committed[name].sequence)

\* C17 witness: the second call for a bucket returns 2 in the transaction after the
\* one that committed the first call, while another bucket is still at 0.
C17_Witness ==
    /\ hist.call = Call("NextSequence", 1, 0, 2)
    /\ hist.ret.err = "nil"
    /\ 1 \in DOMAIN committed
    /\ committed[1].sequence = 1
    /\ MaxSizeName \in DOMAIN rwtx.buckets
    /\ rwtx.buckets[MaxSizeName].sequence = 0

\* C18: Put fails with BucketNotFound for a missing bucket, with KeyRequired for
\* an empty key, with KeyTooLarge for a key longer than 32768 bytes and with
\* ValueTooLarge for a value longer than the largest value size, checked in this
\* order; a failing Put loads no node, allocates no page and changes nothing; a key
\* of 32768 bytes is put.
C18_PutValidates ==
    [][\A name \in InputNames, key \in InputKeys, value \in InputVals :
          Put(1, name, key, value) =>
             LET err == hist'.ret.err
             IN /\ err = IF name \notin DOMAIN rwtx.buckets THEN "BucketNotFound"
                         ELSE IF KeyLen(key) = 0 THEN "KeyRequired"
                         ELSE IF KeyLen(key) > 32768 THEN "KeyTooLarge"
                         ELSE IF value = TooLargeVal THEN "ValueTooLarge"
                         ELSE "nil"
                /\ err # "nil" =>
                      /\ rwtx' = rwtx
                      /\ freelist' = freelist
                      /\ mmapLen' = mmapLen
                      /\ file' = file
                /\ err = "nil" =>
                      \E nid \in rwtx'.cache :
                         \E i \in 1..Len(rwtx'.heap[nid].children) :
                            /\ rwtx'.heap[nid].children[i].key = key
                            /\ rwtx'.heap[nid].children[i].value = value]_vars

\* C18 witness: a key of 32769 bytes has just been refused for a bucket in which a
\* key of 32768 bytes was put and committed.
C18_Witness ==
    /\ hist.call = Call("Put", 1, TooLargeKey, 0)
    /\ hist.ret.err = "KeyTooLarge"
    /\ KeyLen(TooLargeKey) = 32769
    /\ 1 \in DOMAIN committed
    /\ MaxSizeKey \in DOMAIN committed[1].kv
    /\ KeyLen(MaxSizeKey) = 32768

\* C19: Delete fails with BucketNotFound for a missing bucket and changes nothing;
\* Delete of a key that is not in the bucket returns nil and leaves every key and
\* value of the transaction as it was, and what is committed is what the calls
\* other than such a Delete have made.
C19_DeleteMissingKey ==
    /\ [][\A name \in InputNames, key \in {1, 2} :
             Delete(1, name, key) =>
                IF name \notin DOMAIN rwtx.buckets
                THEN /\ hist'.ret.err = "BucketNotFound"
                     /\ rwtx' = rwtx
                     /\ view' = view
                ELSE /\ hist'.ret.err = "nil"
                     /\ rwtx'.buckets = rwtx.buckets
                     /\ key \notin DOMAIN view[name].kv =>
                           /\ view' = view
                           /\ \A nid \in rwtx.cache : rwtx'.heap[nid] = rwtx.heap[nid]
                           /\ \A nid \in rwtx'.cache :
                                 \A i \in 1..Len(rwtx'.heap[nid].children) :
                                    rwtx'.heap[nid].children[i].key
                                       \in DOMAIN view[name].kv]_vars
    /\ [](opened =>
             LET o == observe(mapped(file, mmapLen))
             IN ~o.panic /\ asView(o.state) = committed)

\* C19 witness: a transaction whose only change was the Delete of a key that is
\* not in a bucket with a committed key has written its pages, before the meta.
C19_Witness ==
    /\ pc[1] = "commitMeta"
    /\ hist.call = Call("Delete", 1, 2, 0)
    /\ hist.ret.err = "nil"
    /\ view = committed
    /\ 1 \in DOMAIN committed
    /\ MaxSizeKey \in DOMAIN committed[1].kv

\* a call on the database has returned err and has taken no lock, registered no
\* transaction and left the database as it was
refusedWith(op, err) ==
    /\ hist'.ret = [op |-> op, err |-> err]
    /\ UNCHANGED <<file, opened, mmapLen, freelist, txs, rwtx, rwlock, metalock,
                   mmaplock, pc, view, committed>>

\* C20: the begin of a read transaction and of a write transaction on a database
\* that is not open return DatabaseNotOpen, take neither the writer lock nor the
\* mmap lock and register no transaction; Open on an open database returns
\* DatabaseOpen and leaves it open and unchanged.
C20_NotOpenAndOpenTwice ==
    [][/\ (~opened /\ TxBegin(2)) => refusedWith("txBegin", "DatabaseNotOpen")
       /\ (~opened /\ RwtxBegin(1, InputMaxTxID)) =>
             refusedWith("rwtxBegin", "DatabaseNotOpen")
       /\ (opened /\ Open) => refusedWith("Open", "DatabaseOpen")]_vars

\* C20 witness: the database holds a committed bucket, was closed, and the begin of
\* a write transaction has just been refused.
C20_Witness ==
    /\ ~opened
    /\ hist.ret = [op |-> "rwtxBegin", err |-> "DatabaseNotOpen"]
    /\ rwlock = 0
    /\ rwtx.owner = 0
    /\ 1 \in DOMAIN committed

\* C16: DeleteBucket fails with BucketNotFound for a missing bucket and changes
\* nothing; for a bucket of the catalog it returns nil and Get on the name then
\* fails with BucketNotFound; when the bucket is created again under the name, no
\* key of the old bucket is in it, in the transaction and after its commit.
C16_DeleteBucket ==
    /\ [][\A t \in Threads, name \in BucketNames :
             DeleteBucket(t, name) =>
                IF name \notin DOMAIN rwtx.buckets
                THEN hist'.ret.err = "BucketNotFound" /\ rwtx' = rwtx
                ELSE /\ hist'.ret.err = "nil"
                     /\ \A key \in Keys :
                           txGet(mapped(file', mmapLen'), rwtx'.pages, rwtx'.buckets,
                                 name, key).err]_vars
    /\ [][\A t \in Threads, name \in BucketNames :
             (CreateBucket(t, name, 0) /\ hist'.ret.err = "nil") =>
                \A key \in Keys :
                   LET g == txGet(mapped(file', mmapLen'), rwtx'.pages, rwtx'.buckets,
                                  name, key)
                   IN ~g.err /\ ~g.panic /\ g.value = 0]_vars
    /\ [](opened =>
             LET f == mapped(file, mmapLen)
                 tx == txInit(f)
             IN /\ ~tx.panic
                /\ \A name \in DOMAIN committed, key \in Keys :
                      key \notin DOMAIN committed[name].kv =>
                         LET g == txGet(f, <<>>, tx.buckets, name, key)
                         IN ~g.err /\ ~g.panic /\ g.value = 0)

\* C16 witness: a bucket with a committed key was deleted and created again in the
\* write transaction: its root is a new page and it has no key.
C16_Witness ==
    /\ \E t \in Threads : pc[t] = "writing"
    /\ 1 \in DOMAIN committed
    /\ committed[1].kv # <<>>
    /\ 1 \in DOMAIN rwtx.buckets
    /\ rwtx.buckets[1].rootPageID \in DOMAIN rwtx.pages
    /\ view[1].kv = <<>>

\* C21: no deadlock among the meta lock, the writer lock and the mmap lock. When
\* every read transaction is closed by its owner and every write transaction is
\* committed or rolled back, every begin_read that waits for the mmap lock, every
\* begin_write that waits for the writer lock, every Close of a read transaction
\* and every remap that waits for the readers returns
C21_NoDeadlock ==
    \A t \in LockThreads :
        /\ (pc[t] = "rlockWait") ~> (pc[t] # "rlockWait")
        /\ (pc[t] = "rwlockWait") ~> (pc[t] # "rwlockWait")
        /\ (pc[t] = "reading") ~> (pc[t] # "reading")
        /\ (pc[t] = "mmapWait") ~> (pc[t] # "mmapWait")

\* the catalog that the active meta of the file points to
committedBuckets == bucketsRead(dbPage(file, dbMeta(file).bucketsPageID))

\* the ids of the branch and leaf pages of the tree under page id, with the ids
\* that branch elements give for pages that are not in the file
RECURSIVE treePageIDs(_, _)
treePageIDs(f, id) ==
    IF id \notin DOMAIN f THEN {id}
    ELSE {id} \cup
         IF hasFlag(f[id], branchPageFlag)
         THEN UNION {treePageIDs(f, pageElement(f[id], i).pageID) :
                        i \in 0..(f[id].count - 1)}
         ELSE {}

\* the keys of the leaf pages of the tree under page id
RECURSIVE subtreeKeys(_, _)
subtreeKeys(f, id) ==
    IF id \notin DOMAIN f THEN {}
    ELSE IF hasFlag(f[id], branchPageFlag)
    THEN UNION {subtreeKeys(f, pageElement(f[id], i).pageID) : i \in 0..(f[id].count - 1)}
    ELSE IF hasFlag(f[id], leafPageFlag)
    THEN {pageElement(f[id], i).key : i \in 0..(f[id].count - 1)}
    ELSE {}

\* the ids of the pages of all the committed trees
committedTreePages ==
    UNION {treePageIDs(file, committedBuckets[b].rootPageID) : b \in DOMAIN committedBuckets}

\* the branch pages of the committed trees
committedBranches ==
    {id \in committedTreePages \cap DOMAIN file : hasFlag(file[id], branchPageFlag)}

\* the last call was a Commit that wrote its meta page and returned nil
afterCommit == opened /\ hist.metaOk /\ hist.ret = [op |-> "Commit", err |-> "nil"]

\* C22: after every committed transaction the key of every element of every
\* branch page reachable from the active meta is the smallest key of the subtree
\* under the page the element points to.
C22_BranchKeys ==
    afterCommit =>
        \A id \in committedBranches :
            \A i \in 0..(file[id].count - 1) :
                LET e == pageElement(file[id], i)
                    ks == subtreeKeys(file, e.pageID)
                IN /\ ks # {}
                   /\ e.key \in ks
                   /\ \A k \in ks : e.key <= k

\* C23: after every committed transaction the keys of every branch page and of
\* every leaf page reachable from the active meta are strictly ascending.
C23_KeysAscending ==
    afterCommit =>
        \A id \in committedTreePages \cap DOMAIN file :
            \A i \in 0..(file[id].count - 2) :
                pageElement(file[id], i).key < pageElement(file[id], i + 1).key

\* the branch elements of the committed trees, as pairs of page id and index
committedElements ==
    UNION {{<<id, i>> : i \in 0..(file[id].count - 1)} : id \in committedBranches}

\* the pages that the transaction of the active meta has freed
freedInCommit ==
    IF dbMeta(file).txID \in DOMAIN freelist.pending
    THEN Range(freelist.pending[dbMeta(file).txID]) ELSE {}

\* C24: after every committed transaction every branch and leaf page reachable
\* from the active meta, except the root of a bucket, is the page of exactly one
\* branch element, the root of a bucket of none, and no branch element points to
\* a page that the commit has freed.
C24_OneParent ==
    afterCommit =>
        /\ committedTreePages \subseteq DOMAIN file
        /\ \A id \in committedTreePages :
             LET refs == {e \in committedElements :
                            pageElement(file[e[1]], e[2]).pageID = id}
                 isRoot == \E b \in DOMAIN committedBuckets :
                              committedBuckets[b].rootPageID = id
             IN Cardinality(refs) = IF isRoot THEN 0 ELSE 1
        /\ committedTreePages \cap freedInCommit = {}

activeMetaPage == IF file[0].ptr.txID > file[1].ptr.txID THEN 0 ELSE 1

\* C26: the transaction id of a write transaction is the one of the active meta
\* plus one; Commit writes its meta to the page txid mod 2, which is not the
\* page of the active meta; after a Commit that returned nil the active meta is
\* the one just written, with the higher transaction id; the active meta
\* changes in no other step (Rollback, a Commit that returns an error, a crash).
C26_MetaAlternates ==
    /\ [](rwtx.owner # 0 => rwtx.meta.txID = dbMeta(file).txID + 1)
    /\ [](\A t \in Threads :
            pc[t] = "commitMeta" =>
                /\ metaWrite(rwtx.meta).id = rwtx.meta.txID % 2
                /\ metaWrite(rwtx.meta).id # activeMetaPage)
    /\ [][\A t \in Threads, ok \in BOOLEAN :
            (CommitWriteMeta(t, ok) /\ hist'.ret = [op |-> "Commit", err |-> "nil"]) =>
                /\ dbMeta(file') = [rwtx.meta EXCEPT !.bucketsPageID = rwtx.bucketsPageID]
                /\ dbMeta(file').txID > dbMeta(file).txID
                /\ activeMetaPage' = rwtx.meta.txID % 2
                /\ file'[activeMetaPage] = file[activeMetaPage]]_vars
    /\ [][dbMeta(file') # dbMeta(file) =>
            \E t \in Threads, ok \in BOOLEAN : CommitWriteMeta(t, ok)]_vars

\* C27: in every Commit the meta page is written only after all the dirty pages
\* have been written, in ascending order of their page ids, so that the meta and
\* the catalog refer only to pages that are in the file before the meta write;
\* when the write of a dirty page fails, the file is left as it is and no meta
\* page is written.
C27_MetaAfterPages ==
    /\ [](\A t \in Threads : pc[t] = "commitMeta" => DOMAIN rwtx.pages = {})
    /\ [][\A t \in Threads, ok \in BOOLEAN :
            CommitWritePage(t, ok) =>
                IF pc'[t] \in {"commitWrite", "commitMeta"}
                THEN \E id \in DOMAIN rwtx.pages :
                        /\ \A j \in DOMAIN rwtx.pages : id <= j
                        /\ DOMAIN rwtx'.pages = DOMAIN rwtx.pages \ {id}
                        /\ file'[id] = rwtx.pages[id]
                        /\ file'[0] = file[0]
                        /\ file'[1] = file[1]
                ELSE /\ file' = file
                     /\ \A u \in Threads : pc'[u] # "commitMeta"]_vars
    /\ [][(file'[0] # file[0] \/ file'[1] # file[1]) =>
            LET m == dbMeta(file')
                bucketMap == bucketsRead(dbPage(file, m.bucketsPageID))
            IN /\ \E t \in Threads : pc[t] = "commitMeta" /\ DOMAIN rwtx.pages = {}
               /\ m.bucketsPageID \in DOMAIN file
               /\ m.freelistPageID \in DOMAIN file
               /\ \A b \in DOMAIN bucketMap :
                    treePageIDs(file, bucketMap[b].rootPageID) \subseteq DOMAIN file]_vars

\* C27 witness: a Commit has written the leaf of a bucket, the catalog and then
\* its meta page, in a run in which a write, a remap or the process has failed
C27_Witness ==
    /\ opened
    /\ hist.faults > 0
    /\ hist.metaOk
    /\ hist.ret = [op |-> "Commit", err |-> "nil"]
    /\ \E b \in DOMAIN committedBuckets :
         file[committedBuckets[b].rootPageID].count > 0

\* C28: the high-water page id of the active meta never decreases: it is at
\* least the one of the meta committed before, and no step (commit, rollback,
\* failed commit, crash) makes it smaller.
C28_HighWaterMonotonic ==
    /\ [](dbMeta(file).pageID >= olderMeta(file).pageID)
    /\ [][dbMeta(file').pageID >= dbMeta(file).pageID]_vars

\* C28 witness: two commits have raised the high-water mark one after the other,
\* in a run in which a write, a remap or the process has failed
C28_Witness ==
    /\ opened
    /\ hist.faults > 0
    /\ dbMeta(file).txID = 3
    /\ olderMeta(file).txID = 2
    /\ dbMeta(file).pageID > olderMeta(file).pageID
    /\ olderMeta(file).pageID > dbMeta(dbInit).pageID

\* n page ids of the list ids, from index i + 1 on (i is 0-based), are contiguous
runAt(ids, n, i) ==
    /\ n >= 1
    /\ i + n <= Len(ids)
    /\ \A k \in 1..(n - 1) : ids[i + k] - ids[i + k + 1] = 1

\* the indexes at which a run of n contiguous page ids begins
runStarts(ids, n) == {i \in 0..(Len(ids) - 1) : runAt(ids, n, i)}

\* the ids that successive calls of allocate return, and the list they leave
RECURSIVE allocateEach(_, _)
allocateEach(ids, ns) ==
    IF ns = <<>> THEN [out |-> <<>>, ids |-> ids]
    ELSE LET r == freelistAllocate(ids, Head(ns))
             rest == allocateEach(r.ids, Tail(ns))
         IN [out |-> <<r.id>> \o rest.out, ids |-> rest.ids]

\* C29: allocate(n) returns 0 exactly when the descending list of available ids
\* has no run of n contiguous ids, and then leaves the list as it is; when it
\* returns id, the ids id .. id+n-1 were in the list and are removed, the other
\* ids stay in their order, and every id of the range is at least 2. On the list
\* of the test, allocate(2), (1), (3), (3), (2), (1), (0) return 12, 18, 5, 0, 3,
\* 9, 0 and leave the list empty.
C29_Allocate ==
    /\ [](allocateEach(testPageIDs, <<2, 1, 3, 3, 2, 1, 0>>)
            = [out |-> <<12, 18, 5, 0, 3, 9, 0>>, ids |-> <<>>])
    /\ [][\A n \in 0..FreeMaxN :
            (FreelistAllocate(n) /\ opened') =>
                LET id == hist'.call.out
                    taken == id..(id + n - 1)
                IN /\ (id = 0) <=> (runStarts(freelist.ids, n) = {})
                   /\ id = 0 => freelist'.ids = freelist.ids
                   /\ id # 0 =>
                        /\ taken \subseteq Range(freelist.ids)
                        /\ Range(freelist'.ids) = Range(freelist.ids) \ taken
                        /\ Len(freelist'.ids) = Len(freelist.ids) - n
                        /\ sortedDescending(freelist'.ids)
                        /\ \A x \in taken : x >= 2]_vars

\* C29 witness: allocate has taken a run of several ids out of the middle of a
\* list that still holds ids above and below the run
C29_Witness ==
    /\ hist.call.op = "allocate"
    /\ hist.call.name >= 2
    /\ hist.call.out >= 2
    /\ \E i, j \in DOMAIN freelist.ids :
         /\ freelist.ids[i] > hist.call.out + hist.call.name - 1
         /\ freelist.ids[j] < hist.call.out

\* C30: when the list has several runs of n contiguous ids, allocate returns the
\* lowest id of the first run of the list, which is the run of the highest ids:
\* no run begins before the ids it takes.
C30_FirstRun ==
    [][\A n \in 1..FreeMaxN :
         (FreelistAllocate(n) /\ opened' /\ hist'.call.out # 0) =>
             LET id == hist'.call.out
                 i == CHOOSE x \in 0..(Len(freelist.ids) - 1) :
                         freelist.ids[x + 1] = id + n - 1
             IN /\ runAt(freelist.ids, n, i)
                /\ \A j \in runStarts(freelist.ids, n) : i <= j
                /\ \A j \in runStarts(freelist.ids, n) : id >= freelist.ids[j + n]]_vars

\* C30 witness: allocate has returned an id although the list it has left still
\* has a run of as many contiguous ids, all of them lower
C30_Witness ==
    /\ hist.call.op = "allocate"
    /\ hist.call.name >= 2
    /\ hist.call.out >= 2
    /\ runStarts(freelist.ids, hist.call.name) # {}
    /\ \A x \in Range(freelist.ids) : x < hist.call.out

\* C30 as it is stated: when the list has several runs of n contiguous ids,
\* allocate returns the lowest id of the run that starts lowest.
C30_LowestRun ==
    [][\A n \in 1..FreeMaxN :
         (FreelistAllocate(n) /\ opened' /\ Cardinality(runStarts(freelist.ids, n)) > 1) =>
             \A j \in runStarts(freelist.ids, n) :
                 hist'.call.out <= freelist.ids[j + n]]_vars

\* the pending list of a transaction id (empty when it has none)
pendingOf(fl, txid) == IF txid \in DOMAIN fl.pending THEN fl.pending[txid] ELSE <<>>

\* C31: free(txid, page) appends exactly page.id .. page.id+overflow, in this
\* order, to pending[txid] and changes neither the available ids nor the pending
\* list of another transaction; freeing page 0 or 1 stops the process, and pages
\* 0 and 1 are never in a pending list.
C31_Free ==
    /\ [](\A id \in pendingIds(freelist) : id >= 2)
    /\ [][\A txid \in 2..FreeMaxTxID, p \in FreePages :
            FreelistFree(txid, p) =>
                IF p.id <= 1 THEN ~opened' /\ hist'.crash = "panic"
                ELSE /\ pendingOf(freelist', txid)
                          = pendingOf(freelist, txid)
                              \o [i \in 1..(p.overflow + 1) |-> p.id + i - 1]
                     /\ freelist'.ids = freelist.ids
                     /\ \A x \in (DOMAIN freelist.pending \cup DOMAIN freelist'.pending)
                                    \ {txid} :
                          pendingOf(freelist', x) = pendingOf(freelist, x)]_vars

\* C31 witness: a page with an overflow page was freed for a transaction that
\* had a pending page already, next to the pending list of another transaction
\* and to available ids
C31_Witness ==
    /\ hist.call.op = "free"
    /\ hist.call.out >= 1
    /\ Len(pendingOf(freelist, hist.call.name)) > hist.call.out + 1
    /\ \E x \in DOMAIN freelist.pending : x # hist.call.name /\ freelist.pending[x] # <<>>
    /\ freelist.ids # <<>>

\* the page ids a page takes with its overflow pages
pageRange(id, count) == id..(id + count - 1)

\* C32: allocate(n) with no run in the freelist returns the high water mark of
\* the transaction and advances it by exactly n; the pages id .. id+n-1 it
\* returns are none of the pages returned before in the transaction, and the
\* page is in the dirty pages under its id, next to the pages that were there.
C32_Allocate ==
    [][\A count \in AllocCounts, fails \in 0..1 :
         (RwtxAllocate(1, count, fails) /\ hist'.ret = [op |-> "call", err |-> "nil"]) =>
             LET id == hist'.call.out
             IN /\ runStarts(freelist.ids, count) = {} =>
                      /\ id = rwtx.meta.pageID
                      /\ rwtx'.meta.pageID = rwtx.meta.pageID + count
                /\ \A q \in DOMAIN rwtx.pages :
                      pageRange(id, count) \cap pageRange(q, rwtx.pages[q].overflow + 1) = {}
                /\ id \in DOMAIN rwtx'.pages
                /\ rwtx'.pages[id].id = id
                /\ rwtx'.pages[id].overflow = count - 1
                /\ \A q \in DOMAIN rwtx.pages :
                      q \in DOMAIN rwtx'.pages /\ rwtx'.pages[q] = rwtx.pages[q]]_vars

\* C32 witness: a third allocate of the transaction has returned two pages that
\* lie behind a block of AllocBigCount pages
C32_Witness ==
    /\ hist.call.op = "allocate"
    /\ hist.call.name = 2
    /\ hist.ret.err = "nil"
    /\ Cardinality(DOMAIN rwtx.pages) >= 3
    /\ \E q \in DOMAIN rwtx.pages :
         rwtx.pages[q].overflow = AllocBigCount - 1 /\ q < hist.call.out

\* the number of pages of size P that size bytes need
ceilPages(size) == (size + pageSize - 1) \div pageSize

\* C33: in Commit every spilled node is given ceil(size / P) contiguous pages and
\* the catalog ceil(buckets.size / P) pages, also when the size is a multiple
\* of the page size: every dirty branch or leaf page has as many pages as the
\* node written on it needs, and so has the catalog page.
C33_PagesForSize ==
    (rwtx.owner # 0 /\ pc[rwtx.owner] = "commitWrite") =>
        \A id \in DOMAIN rwtx.pages :
            LET p == rwtx.pages[id]
            IN /\ (hasFlag(p, leafPageFlag) \/ hasFlag(p, branchPageFlag)) =>
                     p.overflow + 1 = ceilPages(nodeSize(nodeRead(p, 0, 0)))
               /\ id = rwtx.bucketsPageID =>
                     p.overflow + 1 = ceilPages(bucketsSize(rwtx.buckets))

\* C34: before a remap unmaps the region every node the write transaction still
\* uses is dereferenced, so no node that is read or written after a remap holds a
\* key or a value that is a slice of the unmapped region: no commit reads such a
\* slice, and the process is not stopped by a fault on one.
C34_NoStaleSlice == ~hist.stale /\ hist.crash # "fault"

\* C35: the writer never remaps while a read transaction is open: the mapping
\* changes only in a step taken with no reader holding the mmap lock and no read
\* transaction open, a writer that needs the remap waits for it holding the
\* request, and while it waits or remaps no read transaction begins.
C35_RemapWithoutReaders ==
    /\ [](mmaplock.readers = Cardinality({t \in DOMAIN pc : pc[t] = "reading"}))
    /\ [](\A t \in DOMAIN pc : pc[t] = "mmapWait" => mmaplock.writer = t /\ rwtx.owner = t)
    /\ [][(opened' /\ mmapLen' # mmapLen) =>
            /\ mmaplock.readers = 0
            /\ \A t \in DOMAIN pc : pc[t] # "reading" /\ txs[t] = NoTx]_vars
    /\ [][mmaplock.writer # 0 =>
            /\ mmaplock'.readers <= mmaplock.readers
            /\ \A t \in DOMAIN pc : pc'[t] = "reading" => pc[t] = "reading"]_vars

\* C35 witness: the writer has remapped in its commit after it had waited, and a
\* thread that called begin while the remap was waited for is still held in it
C35_Witness ==
    /\ mmapLen > mmapSize(0)
    /\ \E w \in DOMAIN pc : pc[w] = "commitWrite" /\ rwtx.owner = w
    /\ \E t \in DOMAIN pc : pc[t] = "rlockWait"
    /\ mmaplock.readers = 0

\* C36: while the database is open, after Open and after every allocate, the
\* mapping covers every page below the high water mark of the active meta and of
\* the write transaction, also after a file larger than the minimum mapping was
\* opened again.
C36_MappingCoversHighWater ==
    opened =>
        /\ mmapLen >= dbMeta(file).pageID * pageSize
        /\ rwtx.owner # 0 => mmapLen >= rwtx.meta.pageID * pageSize

\* the children of the nodes ids of the heap, one after the other
RECURSIVE concatChildren(_, _)
concatChildren(heap, ids) ==
    IF ids = <<>> THEN <<>>
    ELSE heap[Head(ids)].children \o concatChildren(heap, Tail(ids))

\* C37: split returns the node alone and unchanged when it has at most
\* 2 * minKeysPerPage children or a size below the page size; otherwise the
\* children of the nodes it returns are, in order, the children the node had, the
\* first node is the node itself, every node has at least minKeysPerPage children
\* and every node is a leaf exactly when the node was.
C37_Split ==
    [][NodeSplit(SplitRoot) =>
         LET n == rwtx.heap[SplitRoot]
             ids == hist'.call.out
         IN /\ (Len(n.children) <= 2 * minKeysPerPage \/ nodeSize(n) < pageSize) =>
                  ids = <<SplitRoot>> /\ rwtx'.heap[SplitRoot] = n
            /\ ~(Len(n.children) <= 2 * minKeysPerPage \/ nodeSize(n) < pageSize) =>
                  /\ concatChildren(rwtx'.heap, ids) = n.children
                  /\ ids[1] = SplitRoot
                  /\ rwtx'.heap[SplitRoot] = [n EXCEPT !.children = rwtx'.heap[SplitRoot].children]
                  /\ \A j \in 1..Len(ids) :
                        /\ Len(rwtx'.heap[ids[j]].children) >= minKeysPerPage
                        /\ rwtx'.heap[ids[j]].isLeaf = n.isLeaf
                  /\ \A j, k \in 1..Len(ids) : j # k => ids[j] # ids[k]]_vars

\* C37 witness: a leaf of seven children was split into three nodes, the last
\* of them with three children
C37_Witness ==
    /\ hist.call.op = "split"
    /\ Len(hist.call.out) = 3
    /\ rwtx.heap[SplitRoot].isLeaf
    /\ Len(rwtx.heap[hist.call.out[3]].children) = 3

\* one writer on one bucket: the keys are put in ascending order, each once, so
\* that a commit splits the root leaf into three leaves, and the next transaction
\* deletes any of the keys
NextMerge ==
    \/ opened /\ RwtxBegin(1, MergeMaxTxID)
    \/ TreeBucket \notin DOMAIN rwtx.buckets /\ CreateBucket(1, TreeBucket, 0)
    \/ \E key \in 1..MergeMaxKey : derefMayPut(key) /\ Put(1, TreeBucket, key, 1)
    \/ \E key \in 1..MergeMaxKey : rwtx.meta.txID > 2 /\ Delete(1, TreeBucket, key)
    \/ Commit(1, 0)
    \/ CommitWritePage(1, TRUE)
    \/ CommitWriteMeta(1, TRUE)

SpecMerge == Init /\ [][NextMerge]_vars

\* the keys bar < baz < foo and the values "0", "1", "2", "3" of TestNodePut
PutKeys == 1..PutMaxKey
PutVals == 1..PutMaxVal

\* a node without children, &node{children: make(inodes, 0)}, also as a leaf; the
\* database is not involved
InitPut ==
    /\ file = dbInit
    /\ opened = FALSE
    /\ mmapLen = 0
    /\ freelist = freelistRead(dbInit[dbMeta(dbInit).freelistPageID])
    /\ txs = [t \in Threads |-> NoTx]
    /\ \E leaf \in BOOLEAN : rwtx = [NoRwtx EXCEPT !.heap = (0 :> [NilNode EXCEPT !.isLeaf = leaf])]
    /\ rwlock = 0
    /\ metalock = 0
    /\ mmaplock = NoLock
    /\ pc = [t \in Threads |-> "idle"]
    /\ view = viewCreate(<<>>, TreeBucket)
    /\ committed = <<>>
    /\ hist = [ret |-> NoRet, faults |-> 0, crash |-> "", spillErr |-> FALSE, stale |-> FALSE,
               metaOk |-> FALSE, stable |-> observe(mapped(dbInit, mmapSize(0))),
               meta |-> dbMeta(dbInit), log |-> TRUE, call |-> NoCall]

\* n.put(key, key, value, 0) on the node; the value last put for each key is
\* recorded in view
NodePut(key, value) ==
    /\ rwtx' = [rwtx EXCEPT !.heap[0] = nodePut(@, key, key, value, 0)]
    /\ view' = viewPut(view, TreeBucket, key, value)
    /\ hist' = [hist EXCEPT !.call = Call("put", 0, key, value)]
    /\ UNCHANGED <<file, opened, mmapLen, freelist, txs, rwlock, metalock, mmaplock,
                   pc, committed>>

NextPut == \E key \in PutKeys, value \in PutVals : NodePut(key, value)

SpecPut == InitPut /\ [][NextPut]_vars

\* the cached nodes of R are balanced
rebalanced(R) ==
    /\ \A id \in R.cache : ~R.heap[id].unbalanced
    /\ \A id \in R.cache :
          R.heap[id].parent # 0 => Len(R.heap[id].children) >= minKeys(R.heap[id])
    /\ \A id \in R.cache :
          R.heap[id].parent = 0 /\ ~R.heap[id].isLeaf => Len(R.heap[id].children) # 1

\* the nodes that a merge of the rebalance from R0 to R1 has absorbed: they have
\* left the node cache and kept their parent
absorbed(R0, R1) ==
    {id \in R0.cache \ R1.cache : R1.heap[id].parent # 0}

\* no cached node of R has an inode for the page id
unreferenced(R, id) ==
    \A pid \in R.cache :
       ~R.heap[pid].isLeaf =>
          \A i \in 1..Len(R.heap[pid].children) : R.heap[pid].children[i].pageID # id

\* C38: when the rebalance phase of Commit has ended, in whatever order it met
\* the nodes, no cached node is flagged unbalanced, every cached node that is
\* not a root has at least minKeys children, no root branch has exactly one
\* child, and every node absorbed by a merge is neither in the node cache nor
\* among the children of a cached node.
C38_Rebalanced ==
    \A t \in Threads :
       rwtx.owner = t /\ pc[t] = "writing" =>
          \A ro \in rebalanceOrders(startR(0)) :
             LET R1 == rwtxRebalance(mapped(file, mmapLen), startR(0), ro)
             IN ~R1.panic =>
                   /\ rebalanced(R1)
                   /\ \A id \in absorbed(startR(0), R1) :
                         id \notin R1.cache /\ unreferenced(R1, id)

\* Get(name, key) of the write transaction
rwtxGet(name, key) == txGet(mapped(file, mmapLen), rwtx.pages, rwtx.buckets, name, key)

\* Get(name, key) of a read transaction on the committed pages, which no step of
\* the write transaction before its commit changes
snapshotGet(name, key) ==
    txGet(mapped(file, mmapLen), <<>>, txInit(mapped(file, mmapLen)).buckets, name, key)

\* what Get returns in the write transaction for every bucket and key
rwtxGets == [name \in BucketNames, key \in TreeKeys |-> rwtxGet(name, key)]

\* C39: in a write transaction Get returns for a bucket that was there when the
\* transaction began the value that the committed pages hold for the key, and nil
\* for a bucket created in the transaction; no Put and no Delete of the
\* transaction changes what Get returns in it or changes the file, and a read
\* transaction begun before the meta page of the commit is written reads the
\* state of the last commit.
C39_GetReadsSnapshot ==
    /\ [](\A t \in Threads :
            rwtx.owner = t /\ pc[t] = "writing" =>
               \A name \in DOMAIN rwtx.buckets, key \in TreeKeys :
                  /\ ~rwtxGet(name, key).err
                  /\ ~rwtxGet(name, key).panic
                  /\ rwtxGet(name, key).value =
                        IF rwtx.buckets[name].rootPageID \in DOMAIN rwtx.pages THEN 0
                        ELSE snapshotGet(name, key).value)
    /\ [][(/\ rwtx.owner # 0
            /\ rwtx'.owner = rwtx.owner
            /\ pc[rwtx.owner] = "writing"
            /\ pc'[rwtx.owner] = "writing"
            /\ hist'.call.op \in {"Put", "Delete"}) =>
               rwtxGets' = rwtxGets /\ file' = file]_vars
    /\ [](opened /\ rwtx.owner # 0 => observe(mapped(file, mmapLen)) = hist.stable)

\* C39 witness: the write transaction has put a new value for a committed key, has
\* deleted another committed key and has put a new key, and Get returns in it what
\* the three keys had when it began
C39_Witness ==
    /\ rwtx.owner # 0
    /\ pc[rwtx.owner] = "writing"
    /\ \E name \in DOMAIN committed \cap DOMAIN view, k1, k2, k3 \in TreeKeys :
          /\ k1 \in DOMAIN committed[name].kv
          /\ k1 \in DOMAIN view[name].kv
          /\ view[name].kv[k1] # committed[name].kv[k1]
          /\ rwtxGet(name, k1).value = committed[name].kv[k1]
          /\ k2 \in DOMAIN committed[name].kv
          /\ k2 \notin DOMAIN view[name].kv
          /\ rwtxGet(name, k2).value = committed[name].kv[k2]
          /\ k3 \notin DOMAIN committed[name].kv
          /\ k3 \in DOMAIN view[name].kv
          /\ rwtxGet(name, k3).value = 0

\* C40: after any sequence of put(key, key, value, 0) on a node that had no
\* children, the children are strictly ascending by key, hold every key that was
\* put exactly once, and hold for it the value of the last put of that key; a put
\* leaves the inodes of the other keys as they were.
C40_PutKeepsSorted ==
    /\ [](LET c == rwtx.heap[0].children
          IN /\ \A i \in 1..(Len(c) - 1) : c[i].key < c[i + 1].key
             /\ {c[i].key : i \in 1..Len(c)} = DOMAIN view[TreeBucket].kv
             /\ \A i \in 1..Len(c) :
                   c[i].value = view[TreeBucket].kv[c[i].key] /\ c[i].pageID = 0)
    /\ [][\A key \in PutKeys, value \in PutVals :
             NodePut(key, value) =>
                LET c == rwtx.heap[0].children
                    d == rwtx'.heap[0].children
                IN /\ \E i \in 1..Len(d) : d[i].key = key /\ d[i].value = value
                   /\ \A i \in 1..Len(c) :
                         c[i].key # key => \E j \in 1..Len(d) : d[j] = c[i]
                   /\ Len(d) = Len(c) + IF \E i \in 1..Len(c) : c[i].key = key THEN 0 ELSE 1]_vars

\* C40 witness: the puts of TestNodePut (baz "2", foo "0", bar "1", foo "3") have
\* left bar "1", baz "2", foo "3", the last put being the second one of foo
C40_Witness ==
    /\ rwtx.heap[0].children = <<[key |-> 1, value |-> 2, pageID |-> 0],
                                 [key |-> 2, value |-> 3, pageID |-> 0],
                                 [key |-> 3, value |-> 4, pageID |-> 0]>>
    /\ hist.call = Call("put", 0, 3, 4)

====
